---------------------------- MODULE Spec2Model ----------------------------
(***************************************************************************)
(* mongofuse: a FUSE filesystem kept in two MongoDB collections.           *)
(*                                                                         *)
(* The model follows extra.js (src/unnamed/part_001, lines 1-330) and      *)
(* fuseops.js (src/unnamed/part_002, lines 1-860).                         *)
(*                                                                         *)
(* Node.js runs one callback at a time.  A handler gives up control at     *)
(* every store call, so a step of the model is one store call of one       *)
(* handler together with the callback that receives its answer.  The       *)
(* callbacks that read or write the open-file table after a store call     *)
(* (open's add, unlink's "is it open?" test, write's second read of its    *)
(* handle) are steps of their own, because other callbacks may run between *)
(* the store applying the call and the callback being delivered.           *)
(*                                                                         *)
(* A callback reads the clock once: the Date.now() calls of one expression *)
(* (ctime and mtime of one $set) give one value.  The store answers every  *)
(* call without error, except the lookups of resolvePath where a           *)
(* specification includes ResolveFails.                                    *)
(***************************************************************************)
EXTENDS Integers, Sequences, FiniteSets, TLC

VARIABLES
  directory,  \* db.directory: entry id -> [name, parent, inode]
  inodes,     \* db.inodes: inode id -> inode document
  nextDir,    \* ids the store has handed out for directory entries
  nextIno,    \* ids the store has handed out for inodes
  openFiles,  \* mf.openFiles: fd -> [inode, flags]
  next,       \* mf.openFiles.next
  now,        \* Date.now()
  atimeLevel, \* global.ATIME_LEVEL
  idsByValue, \* what `===` makes of two ids that came from two store calls
  ops         \* the handlers in flight, one per slot

vars ==
  <<directory, inodes, nextDir, nextIno, openFiles, next, now, atimeLevel, idsByValue, ops>>

----------------------------------------------------------------------------
(* Bounds of the model *)

MaxInodes == 2   \* inode documents ever inserted (the root's included)
MaxDirents == 3  \* directory entries ever inserted (the root's included)
MaxFds == 1      \* handles ever handed out by openFiles.add
MaxTime == 1     \* ticks of the clock
MaxHandles == 2  \* handles ever handed out where handles are told apart

----------------------------------------------------------------------------
(* fuse-bindings error codes (negated errno values) *)

EPERM == -1
ENOENT == -2
EIO == -5
EBADF == -9
EACCES == -13
ENOTDIR == -20
EISDIR == -21
EINVAL == -22
ERANGE == -34
ENODATA == -61
EFBIG == -27
ENOTEMPTY == -39

(* File type bits of a mode *)
S_IFDIR == 16384   \* 0o040000
O_DIRECTORY == 65536  \* 0o200000

FirstFd == 10
MaxDocSize == 16000000

----------------------------------------------------------------------------
(* Optional fields of a document: <<>> is "absent", <<x>> is "x" *)

None == <<>>
Some(x) == <<x>>
Has(o) == Len(o) = 1
Val(o) == o[1]

Min(a, b) == IF a < b THEN a ELSE b
Max(a, b) == IF a > b THEN a ELSE b

(* x & y on three-bit values *)
And3(x, y) ==
  ((IF (x \div 4) % 2 = 1 /\ (y \div 4) % 2 = 1 THEN 4 ELSE 0)
   + (IF (x \div 2) % 2 = 1 /\ (y \div 2) % 2 = 1 THEN 2 ELSE 0)
   + (IF x % 2 = 1 /\ y % 2 = 1 THEN 1 ELSE 0))

(* mode & 0o170000 *)
FileType(mode) == ((mode \div 4096) % 16) * 4096
IsDir(mode) == FileType(mode) = S_IFDIR

----------------------------------------------------------------------------
(* Paths.  A canonical path is the sequence of its components after the    *)
(* leading slash: "/" is <<>>, "/a/b" is <<"a", "b">>.                     *)

Names == {"a", "b"}
RootPath == <<>>
FlatPaths == {<<n>> : n \in Names}

(* path.split("/") after "/" was replaced by "": the root's empty name first *)
SplitPath(path) == <<"">> \o path
(* path.dirname and path.basename *)
Dirname(path) == IF path = <<>> THEN <<>> ELSE SubSeq(path, 1, Len(path) - 1)
Basename(path) == IF path = <<>> THEN "" ELSE path[Len(path)]

----------------------------------------------------------------------------
(* The payload of an inode, a MongoDB Binary: its length and its bytes.    *)
(* Only the non-zero bytes are listed, as <<position, value>> pairs, so a  *)
(* payload of sixteen million zero bytes is a small value.                 *)

EmptyBin == [len |-> 0, nz |-> {}]
BinOf(bytes) ==
  [len |-> Len(bytes), nz |-> {<<i - 1, bytes[i]>> : i \in {j \in 1..Len(bytes) : bytes[j] # 0}}]
ByteAt(bin, i) ==
  IF \E p \in bin.nz : p[1] = i THEN (CHOOSE p \in bin.nz : p[1] = i)[2] ELSE 0

(* a write that appends, wherever it was asked to write *)
BinAppend(bin, bytes, pos) ==
  [len |-> bin.len + Len(bytes),
   nz |-> bin.nz \cup {<<bin.len + i - 1, bytes[i]>> : i \in {j \in 1..Len(bytes) : bytes[j] # 0}}]

(* Binary.write(buf, pos): the bytes of buf at pos, the payload grown to hold *)
(* them, a gap between the old end and pos left zero                         *)
BinWrite(bin, bytes, pos) ==
  [len |-> Max(bin.len, pos + Len(bytes)),
   nz |-> {p \in bin.nz : p[1] < pos \/ p[1] >= pos + Len(bytes)}
          \cup {<<pos + i - 1, bytes[i]>> : i \in {j \in 1..Len(bytes) : bytes[j] # 0}}]

(* Binary.read(pos, len): the bytes from pos, at most len and at most to the end *)
BinRead(bin, pos, len) ==
  [i \in 1..Max(0, Min(len, bin.len - pos)) |-> ByteAt(bin, pos + i - 1)]

(* a buffer of size bytes that takes every byte of the old payload *)
BinTruncateAll(data, size) ==
  [len |-> size, nz |-> IF Has(data) THEN Val(data).nz ELSE {}]

(* a zero-filled buffer of size bytes with the start of the old payload copied in *)
BinTruncate(data, size) ==
  [len |-> size,
   nz |-> IF Has(data) THEN {p \in Val(data).nz : p[1] < size} ELSE {}]

----------------------------------------------------------------------------
(* Handlers in flight *)

NoDoc ==
  [id |-> 0, mode |-> 0, uid |-> 0, gid |-> 0, ctime |-> 0, mtime |-> 0, atime |-> 0,
   size |-> None, data |-> None, nlink |-> 0, xattr |-> None]

Idle ==
  [op |-> "none", pc |-> "idle", uid |-> 0, path |-> <<>>, path2 |-> <<>>,
   todo |-> <<>>, pdoc |-> 0, pino |-> 0, after |-> "none",
   saved |-> 0, target |-> 0, mode |-> 0, flags |-> 0, fd |-> 0, time |-> 0,
   size |-> 0, pos |-> 0, buf |-> <<>>, doc |-> NoDoc, newdata |-> None,
   reqUid |-> 0, reqGid |-> 0, name |-> <<>>, ret |-> 0, out |-> <<>>]

Slots == {1, 2}

Free(s) == ops[s].pc = "idle"

(* a new call takes the first free slot *)
FirstFree(s) == Free(s) /\ \A t \in Slots : t < s => ~Free(t)

(* The handler's callback is called with r: the slot keeps what it was     *)
(* called for and what it answered.                                        *)
Finish(o, r) ==
  [Idle EXCEPT !.op = o.op, !.pc = "done", !.uid = o.uid, !.path = o.path,
               !.path2 = o.path2, !.mode = o.mode, !.flags = o.flags, !.fd = o.fd,
               !.size = o.size, !.pos = o.pos, !.buf = o.buf, !.time = o.time,
               !.target = o.target, !.reqUid = o.reqUid, !.reqGid = o.reqGid,
               !.name = o.name, !.ret = r]
FinishWith(o, r, out, doc) == [Finish(o, r) EXCEPT !.out = out, !.doc = doc]

Put(s, o) == ops' = [ops EXCEPT ![s] = o]

(* The caller has taken the answer: the slot is free for the next call. *)
Return(s) ==
  /\ ops[s].pc = "done"
  /\ Put(s, Idle)
  /\ UNCHANGED <<directory, inodes, nextDir, nextIno, openFiles, next, now, atimeLevel, idsByValue>>


----------------------------------------------------------------------------
(* The calling context and the identity database *)

(* posix.getgrnam(gid).members: the users listed as members of a group *)
GroupMembers == {<<1, 1>>, <<2, 1>>}

(* fuse.context().gid of a caller *)
GidOf(uid) == uid

useringroup(uid, gid) == <<uid, gid>> \in GroupMembers

(* chkaccess with no branch for the members of the inode's group *)
chkaccessNoGroup(inode, mode, uid) ==
  IF mode < 0 \/ mode > 7 THEN EINVAL
  ELSE IF mode = 0 THEN 0
  ELSE IF uid = 0 THEN 0
  ELSE IF uid = inode.uid
    THEN (IF And3((inode.mode \div 64) % 8, mode) = mode THEN 0 ELSE EACCES)
  ELSE (IF And3(inode.mode % 8, mode) = mode THEN 0 ELSE EACCES)

(* chkaccess that asks of the others no more than the bits they have *)
chkaccessLax(inode, mode, uid) ==
  IF mode < 0 \/ mode > 7 THEN EINVAL
  ELSE IF mode = 0 THEN 0
  ELSE IF uid = 0 THEN 0
  ELSE IF uid = inode.uid
    THEN (IF And3((inode.mode \div 64) % 8, mode) = mode THEN 0 ELSE EACCES)
  ELSE IF useringroup(uid, inode.gid)
    THEN (IF And3((inode.mode \div 8) % 8, mode) = mode THEN 0 ELSE EACCES)
  ELSE (IF And3(inode.mode % 8, mode) = inode.mode % 8 THEN 0 ELSE EACCES)

chkaccess(inode, mode, uid) ==
  IF mode < 0 \/ mode > 7 THEN EINVAL
  ELSE IF mode = 0 THEN 0
  ELSE IF uid = 0 THEN 0
  ELSE IF uid = inode.uid
    THEN (IF And3((inode.mode \div 64) % 8, mode) = mode THEN 0 ELSE EACCES)
  ELSE IF useringroup(uid, inode.gid)
    THEN (IF And3((inode.mode \div 8) % 8, mode) = mode THEN 0 ELSE EACCES)
  ELSE (IF And3(inode.mode % 8, mode) = mode THEN 0 ELSE EACCES)

----------------------------------------------------------------------------
(* The store *)

(* db.directory.findOne({name, parent}): the entries it may return *)
Lookup(name, parent) ==
  {d \in DOMAIN directory : directory[d].name = name /\ directory[d].parent = parent}

(* db.directory.count({inode}) *)
LinkCount(i) == Cardinality({d \in DOMAIN directory : directory[d].inode = i})

(* db.directory.count({parent}) *)
ChildCount(d) == Cardinality({c \in DOMAIN directory : directory[c].parent = d})

(* the handles of the open-file table that reference an inode *)
HandlesOf(table, i) == {fd \in DOMAIN table : table[fd].inode = i}

(* a removal that removes nothing *)
Kept(f, x) == f

(* `delete f[x]` *)
Without(f, x) == [y \in DOMAIN f \ {x} |-> f[y]]

(* handlers in flight that will still insert an inode, an entry, a handle *)
InodeInserters ==
  {s \in Slots : ~Free(s) /\ ops[s].op \in {"mknod", "mkdir", "symlink", "init"}
                          /\ ops[s].pc # "mk_dir"}
EntryInserters ==
  {s \in Slots : ~Free(s) /\ ops[s].op \in {"mknod", "mkdir", "symlink", "init", "link"}}
Openers == {s \in Slots : ~Free(s) /\ ops[s].op = "open"}
MayInsertInode == nextIno + Cardinality(InodeInserters) < MaxInodes
MayInsertEntry == nextDir + Cardinality(EntryInserters) < MaxDirents
MayOpenUpTo(n) == (next - FirstFd) + Cardinality(Openers) < n
MayOpen == MayOpenUpTo(MaxFds)

----------------------------------------------------------------------------
(* resolvePath: one findOne per component, each waiting for the last *)

StartResolve(o, path, after) ==
  [o EXCEPT !.pc = "resolve", !.todo = SplitPath(path), !.pdoc = 0, !.pino = 0,
            !.after = after]

(* the callback that receives the resolved entry *)
Resolved(o) ==
  IF o.after = "rn_dest"
    THEN StartResolve([o EXCEPT !.saved = o.pdoc], Dirname(o.path2), "rn_upd")
  ELSE IF o.after \in {"ln_find", "ul_rm", "ga_find", "tr_find", "rdd_find", "rl_find",
                       "cm_find", "co_find", "gx_find", "lx_find", "rx_find", "sx_upd"}
    THEN [o EXCEPT !.pc = o.after, !.saved = o.pdoc, !.target = o.pino]
  ELSE [o EXCEPT !.pc = o.after]

(* a missing component that resolves like a found one *)
UnresolvedAsFound(o) == Resolved(o)

(* the callback that receives ENOENT from a lookup *)
Unresolved(o) ==
  IF o.op = "init" THEN [o EXCEPT !.pc = "mk_ino"] ELSE Finish(o, ENOENT)

ResolveFound(s, d) ==
  LET o == ops[s]
      n == [o EXCEPT !.pdoc = d, !.pino = directory[d].inode, !.todo = Tail(o.todo)]
  IN /\ o.pc = "resolve"
     /\ d \in Lookup(Head(o.todo), o.pdoc)
     /\ Put(s, IF n.todo = <<>> THEN Resolved(n) ELSE n)
     /\ UNCHANGED <<directory, inodes, nextDir, nextIno, openFiles, next, now, atimeLevel, idsByValue>>

(* the store answers a lookup with an error *)
ResolveFails(s) ==
  LET o == ops[s]
  IN /\ o.pc = "resolve"
     /\ Put(s, Finish(o, EIO))
     /\ UNCHANGED <<directory, inodes, nextDir, nextIno, openFiles, next, now, atimeLevel, idsByValue>>

ResolveMissing(s) ==
  LET o == ops[s]
  IN /\ o.pc = "resolve"
     /\ Lookup(Head(o.todo), o.pdoc) = {}
     /\ Put(s, Unresolved(o))
     /\ UNCHANGED <<directory, inodes, nextDir, nextIno, openFiles, next, now, atimeLevel, idsByValue>>

----------------------------------------------------------------------------
(* doMknod, and with it mknod, mkdir, symlink and init's two inserts *)

NewInode(o) ==
  [id |-> nextIno + 1, mode |-> o.mode, uid |-> o.uid, gid |-> GidOf(o.uid),
   ctime |-> o.time, mtime |-> o.time, atime |-> o.time,
   size |-> None, data |-> o.newdata, nlink |-> 0, xattr |-> None]

StartMknod(s, uid, path, mode) ==
  /\ FirstFree(s) /\ MayInsertInode /\ MayInsertEntry
  /\ Put(s, StartResolve([Idle EXCEPT !.op = "mknod", !.uid = uid, !.path = path,
                                      !.mode = mode, !.time = now],
                         Dirname(path), "mk_ino"))
  /\ UNCHANGED <<directory, inodes, nextDir, nextIno, openFiles, next, now, atimeLevel, idsByValue>>

StartMkdir(s, uid, path, mode) ==
  /\ FirstFree(s) /\ MayInsertInode /\ MayInsertEntry
  /\ Put(s, StartResolve([Idle EXCEPT !.op = "mkdir", !.uid = uid, !.path = path,
                                      !.mode = (mode % 4096) + S_IFDIR, !.time = now],
                         Dirname(path), "mk_ino"))
  /\ UNCHANGED <<directory, inodes, nextDir, nextIno, openFiles, next, now, atimeLevel, idsByValue>>

InsertInode(s) ==
  LET o == ops[s]
  IN /\ o.pc = "mk_ino"
     /\ inodes' = (nextIno + 1 :> NewInode(o)) @@ inodes
     /\ nextIno' = nextIno + 1
     /\ Put(s, [o EXCEPT !.pc = "mk_dir", !.target = nextIno + 1])
     /\ UNCHANGED <<directory, nextDir, openFiles, next, now, atimeLevel, idsByValue>>

(* an entry that references no inode *)
EntryOfNothing(o) == [name |-> "", parent |-> 0, inode |-> 0]

(* an error of the inode's insert that the handler does not look at *)
InsertInodeIgnored(s) ==
  LET o == ops[s]
  IN /\ o.pc = "mk_ino"
     /\ Put(s, [o EXCEPT !.pc = "mk_dir"])
     /\ UNCHANGED <<directory, inodes, nextDir, nextIno, openFiles, next, now, atimeLevel, idsByValue>>

(* the store answers the insert of the inode with an error *)
InsertInodeFails(s) ==
  LET o == ops[s]
  IN /\ o.pc = "mk_ino"
     /\ Put(s, Finish(o, EIO))
     /\ UNCHANGED <<directory, inodes, nextDir, nextIno, openFiles, next, now, atimeLevel, idsByValue>>

NewEntry(o) ==
  IF o.op = "init" THEN [name |-> "", parent |-> 0, inode |-> o.target]
  ELSE [name |-> Basename(o.path), parent |-> o.pdoc, inode |-> o.target]

InsertEntry(s) ==
  LET o == ops[s]
  IN /\ o.pc = "mk_dir"
     /\ directory' = (nextDir + 1 :> NewEntry(o)) @@ directory
     /\ nextDir' = nextDir + 1
     /\ Put(s, Finish(o, 0))
     /\ UNCHANGED <<inodes, nextIno, openFiles, next, now, atimeLevel, idsByValue>>

(* the store answers the insert of the entry with an error *)
InsertEntryFails(s) ==
  LET o == ops[s]
  IN /\ o.pc = "mk_dir"
     /\ Put(s, Finish(o, EIO))
     /\ UNCHANGED <<directory, inodes, nextDir, nextIno, openFiles, next, now, atimeLevel, idsByValue>>

----------------------------------------------------------------------------
(* init *)

RootMode == 16877  \* 0o040777 & ~umask, with the usual umask 0o022

StartInit(s, uid) ==
  /\ FirstFree(s) /\ MayInsertInode /\ MayInsertEntry
  /\ Put(s, StartResolve([Idle EXCEPT !.op = "init", !.uid = uid, !.mode = RootMode,
                                      !.time = now],
                         RootPath, "in_done"))
  /\ UNCHANGED <<directory, inodes, nextDir, nextIno, openFiles, next, now, atimeLevel, idsByValue>>

InitDone(s) ==
  /\ ops[s].pc = "in_done"
  /\ Put(s, Finish(ops[s], 0))
  /\ UNCHANGED <<directory, inodes, nextDir, nextIno, openFiles, next, now, atimeLevel, idsByValue>>

----------------------------------------------------------------------------
(* link *)

StartLink(s, uid, src, dest) ==
  /\ FirstFree(s) /\ MayInsertEntry
  /\ Put(s, StartResolve([Idle EXCEPT !.op = "link", !.uid = uid, !.path = src,
                                      !.path2 = dest],
                         src, "ln_find"))
  /\ UNCHANGED <<directory, inodes, nextDir, nextIno, openFiles, next, now, atimeLevel, idsByValue>>

(* link that takes a directory for a source like any other inode *)
LinkCheckAnyType(o) ==
  IF o.target \notin DOMAIN inodes THEN ENOENT ELSE 0

(* what link answers to the source inode it looked up (0: go on) *)
LinkCheck(o) ==
  IF o.target \notin DOMAIN inodes THEN ENOENT
  ELSE IF FileType(inodes[o.target].mode) = S_IFDIR THEN EPERM
  ELSE 0

LinkFind(s) ==
  LET o == ops[s]
  IN /\ o.pc = "ln_find"
     /\ Put(s, IF LinkCheck(o) # 0 THEN Finish(o, LinkCheck(o))
               ELSE StartResolve(o, Dirname(o.path2), "ln_ins"))
     /\ UNCHANGED <<directory, inodes, nextDir, nextIno, openFiles, next, now, atimeLevel, idsByValue>>

LinkInsert(s) ==
  LET o == ops[s]
  IN /\ o.pc = "ln_ins"
     /\ directory' = (nextDir + 1 :> [name |-> Basename(o.path2), parent |-> o.pdoc,
                                      inode |-> o.target]) @@ directory
     /\ nextDir' = nextDir + 1
     /\ Put(s, Finish(o, 0))
     /\ UNCHANGED <<inodes, nextIno, openFiles, next, now, atimeLevel, idsByValue>>

----------------------------------------------------------------------------
(* rename *)

StartRename(s, uid, src, dest) ==
  /\ FirstFree(s)
  /\ Put(s, StartResolve([Idle EXCEPT !.op = "rename", !.uid = uid, !.path = src,
                                      !.path2 = dest],
                         src, "rn_dest"))
  /\ UNCHANGED <<directory, inodes, nextDir, nextIno, openFiles, next, now, atimeLevel, idsByValue>>

(* db.directory.update({_id}, {$set: {name, parent}}); no entry matched: no error *)
RenameUpdate(s) ==
  LET o == ops[s]
  IN /\ o.pc = "rn_upd"
     /\ directory' = IF o.saved \in DOMAIN directory
                       THEN [directory EXCEPT ![o.saved].name = Basename(o.path2),
                                              ![o.saved].parent = o.pdoc]
                       ELSE directory
     /\ Put(s, Finish(o, 0))
     /\ UNCHANGED <<inodes, nextDir, nextIno, openFiles, next, now, atimeLevel, idsByValue>>

----------------------------------------------------------------------------
(* iremove: remove the inode if it is not open and has no links *)

(* The loop over mf.openFiles, run in the caller's turn, with its test      *)
(* `mf.openFiles[fd].inode === inode`.  The id a handle holds and the id    *)
(* iremove is given come from two different store calls.  The source        *)
(* annotates ids as strings, which `===` compares by value; the driver      *)
(* hands an _id over as an ObjectId object, and `===` on two objects holds  *)
(* only of one and the same object.  Both outcomes are kept.                *)
IsOpen(table, i) == idsByValue /\ HandlesOf(table, i) # {}

(* a count that is never taken for a link *)
NeverLinked(i) == FALSE

(* a count that is always taken for a link *)
EverLinked(i) == TRUE

(* `if (cnt) { return cb(0); }` *)
HasLinks(i) == LinkCount(i) # 0

IremoveCount(s) ==
  LET o == ops[s]
  IN /\ o.pc = "ir_cnt"
     /\ Put(s, IF HasLinks(o.target) THEN Finish(o, 0) ELSE [o EXCEPT !.pc = "ir_rm"])
     /\ UNCHANGED <<directory, inodes, nextDir, nextIno, openFiles, next, now, atimeLevel, idsByValue>>

IremoveRemove(s) ==
  LET o == ops[s]
  IN /\ o.pc = "ir_rm"
     /\ inodes' = Without(inodes, o.target)
     /\ Put(s, Finish(o, 0))
     /\ UNCHANGED <<directory, nextDir, nextIno, openFiles, next, now, atimeLevel, idsByValue>>

----------------------------------------------------------------------------
(* unlink and rmdir *)

StartUnlink(s, uid, path) ==
  /\ FirstFree(s)
  /\ Put(s, StartResolve([Idle EXCEPT !.op = "unlink", !.uid = uid, !.path = path],
                         path, "ul_rm"))
  /\ UNCHANGED <<directory, inodes, nextDir, nextIno, openFiles, next, now, atimeLevel, idsByValue>>

UnlinkRemove(s) ==
  LET o == ops[s]
  IN /\ o.pc = "ul_rm"
     /\ directory' = Without(directory, o.saved)
     /\ Put(s, [o EXCEPT !.pc = "ul_chk"])
     /\ UNCHANGED <<inodes, nextDir, nextIno, openFiles, next, now, atimeLevel, idsByValue>>

(* the callback of the entry's removal enters iremove *)
UnlinkIremove(s) ==
  LET o == ops[s]
  IN /\ o.pc = "ul_chk"
     /\ Put(s, IF IsOpen(openFiles, o.target) THEN Finish(o, 0)
               ELSE [o EXCEPT !.pc = "ir_cnt"])
     /\ UNCHANGED <<directory, inodes, nextDir, nextIno, openFiles, next, now, atimeLevel, idsByValue>>

StartRmdir(s, uid, path) ==
  /\ FirstFree(s)
  /\ Put(s, StartResolve([Idle EXCEPT !.op = "rmdir", !.uid = uid, !.path = path],
                         path, "rd_cnt"))
  /\ UNCHANGED <<directory, inodes, nextDir, nextIno, openFiles, next, now, atimeLevel, idsByValue>>

RmdirCount(s) ==
  LET o == ops[s]
  IN /\ o.pc = "rd_cnt"
     /\ Put(s, IF ChildCount(o.pdoc) # 0 THEN Finish(o, ENOTEMPTY)
               ELSE StartResolve(o, o.path, "ul_rm"))
     /\ UNCHANGED <<directory, inodes, nextDir, nextIno, openFiles, next, now, atimeLevel, idsByValue>>

----------------------------------------------------------------------------
(* open (and opendir) and release (and releasedir) *)

(* a map that takes access mode 3 for read and write *)
ModeMapLenient(flags) == <<4, 2, 6, 6>>[(flags % 4) + 1]

(* modemap[flags & 0x3] *)
ModeMap(flags) == <<4, 2, 6, -1>>[(flags % 4) + 1]

(* what open answers to the inode it looked up (0: register a handle) *)
OpenCheck(o) ==
  IF o.pino \notin DOMAIN inodes THEN ENOENT
  ELSE IF chkaccess(inodes[o.pino], ModeMap(o.flags), o.uid) # 0
    THEN chkaccess(inodes[o.pino], ModeMap(o.flags), o.uid)
  ELSE IF (o.flags \div O_DIRECTORY) % 2 = 1 /\ FileType(inodes[o.pino].mode) # S_IFDIR
    THEN ENOTDIR
  ELSE 0

OpenCall(s, uid, path, flags) ==
  /\ FirstFree(s)
  /\ Put(s, StartResolve([Idle EXCEPT !.op = "open", !.uid = uid, !.path = path,
                                      !.flags = flags],
                         path, "op_find"))
  /\ UNCHANGED <<directory, inodes, nextDir, nextIno, openFiles, next, now, atimeLevel, idsByValue>>

StartOpen(s, uid, path, flags) == MayOpen /\ OpenCall(s, uid, path, flags)

OpenFind(s) ==
  LET o == ops[s]
  IN /\ o.pc = "op_find"
     /\ Put(s, IF OpenCheck(o) # 0 THEN Finish(o, OpenCheck(o))
               ELSE [o EXCEPT !.pc = "op_add", !.target = o.pino])
     /\ UNCHANGED <<directory, inodes, nextDir, nextIno, openFiles, next, now, atimeLevel, idsByValue>>

(* a counter that hands the same value out again *)
SameHandle(n) == n

(* `this.next++` *)
NextHandle(n) == n + 1

(* mf.openFiles.add *)
OpenAdd(s) ==
  LET o == ops[s]
  IN /\ o.pc = "op_add"
     /\ openFiles' = (next :> [inode |-> o.target, flags |-> o.flags]) @@ openFiles
     /\ next' = NextHandle(next)
     /\ Put(s, FinishWith(o, 0, <<next>>, NoDoc))
     /\ UNCHANGED <<directory, inodes, nextDir, nextIno, now, atimeLevel, idsByValue>>

Release(s, uid, fd) ==
  LET o == [Idle EXCEPT !.op = "release", !.uid = uid, !.fd = fd]
      left == Without(openFiles, fd)
  IN /\ FirstFree(s)
     /\ IF fd \notin DOMAIN openFiles
          THEN /\ Put(s, Finish(o, EBADF))
               /\ UNCHANGED openFiles
          ELSE /\ openFiles' = left
               /\ Put(s, IF IsOpen(left, openFiles[fd].inode) THEN Finish(o, 0)
                         ELSE [o EXCEPT !.pc = "ir_cnt", !.target = openFiles[fd].inode])
     /\ UNCHANGED <<directory, inodes, nextDir, nextIno, next, now, atimeLevel, idsByValue>>

----------------------------------------------------------------------------
(* access *)

StartAccess(s, uid, path, mode) ==
  /\ FirstFree(s)
  /\ Put(s, StartResolve([Idle EXCEPT !.op = "access", !.uid = uid, !.path = path,
                                      !.mode = mode],
                         path, "ac_find"))
  /\ UNCHANGED <<directory, inodes, nextDir, nextIno, openFiles, next, now, atimeLevel, idsByValue>>

AccessFind(s) ==
  LET o == ops[s]
  IN /\ o.pc = "ac_find"
     /\ Put(s, IF o.pino \notin DOMAIN inodes THEN Finish(o, ENOENT)
               ELSE FinishWith(o, chkaccess(inodes[o.pino], o.mode, o.uid), <<>>,
                               [inodes[o.pino] EXCEPT !.data = None]))
     /\ UNCHANGED <<directory, inodes, nextDir, nextIno, openFiles, next, now, atimeLevel, idsByValue>>

----------------------------------------------------------------------------
(* chmod *)

(* a mode taken from the request as it comes *)
ChmodModeAsAsked(doc, mode) == mode

(* (doc.mode & 0o170000) | (mode & 0o7777) *)
ChmodMode(doc, mode) == ((doc.mode \div 4096) % 16) * 4096 + (mode % 4096)

StartChmod(s, uid, path, mode) ==
  /\ FirstFree(s)
  /\ Put(s, StartResolve([Idle EXCEPT !.op = "chmod", !.uid = uid, !.path = path,
                                      !.mode = mode],
                         path, "cm_find"))
  /\ UNCHANGED <<directory, inodes, nextDir, nextIno, openFiles, next, now, atimeLevel, idsByValue>>

(* context.uid !== 0 && context.uid !== doc.uid *)
NotOwner(uid, doc) == uid # 0 /\ uid # doc.uid

ChmodFind(s) ==
  LET o == ops[s]
      doc == inodes[o.target]
  IN /\ o.pc = "cm_find"
     /\ Put(s, IF o.target \notin DOMAIN inodes THEN Finish(o, ENOENT)
               ELSE IF NotOwner(o.uid, doc) THEN Finish(o, EPERM)
               ELSE [o EXCEPT !.pc = "cm_upd", !.time = now,
                              !.doc = [doc EXCEPT !.ctime = now,
                                                  !.mode = ChmodMode(doc, o.mode),
                                                  !.data = None]])
     /\ UNCHANGED <<directory, inodes, nextDir, nextIno, openFiles, next, now, atimeLevel, idsByValue>>

ChmodUpdate(s) ==
  LET o == ops[s]
  IN /\ o.pc = "cm_upd"
     /\ IF o.target \in DOMAIN inodes
          THEN /\ inodes' = [inodes EXCEPT ![o.target].ctime = o.doc.ctime,
                                           ![o.target].mode = o.doc.mode]
               /\ Put(s, Finish(o, 0))
          ELSE /\ UNCHANGED inodes
               /\ Put(s, Finish(o, EIO))
     /\ UNCHANGED <<directory, nextDir, nextIno, openFiles, next, now, atimeLevel, idsByValue>>

----------------------------------------------------------------------------
(* chown *)

StartChown(s, uid, path, reqUid, reqGid) ==
  /\ FirstFree(s)
  /\ Put(s, StartResolve([Idle EXCEPT !.op = "chown", !.uid = uid, !.path = path,
                                      !.reqUid = reqUid, !.reqGid = reqGid],
                         path, "co_find"))
  /\ UNCHANGED <<directory, inodes, nextDir, nextIno, openFiles, next, now, atimeLevel, idsByValue>>

(* a chown that any owner may make *)
ChownCheckOwnerOnly(o, doc) == IF NotOwner(o.uid, doc) THEN EPERM ELSE 0

(* the three tests of "Is this allowed?" *)
ChownCheck(o, doc) ==
  IF NotOwner(o.uid, doc) THEN EPERM
  ELSE IF o.uid # 0 /\ o.reqUid # -1 /\ o.uid # o.reqUid THEN EPERM
  ELSE IF o.uid # 0 /\ o.reqGid # -1 /\ ~useringroup(o.uid, o.reqGid) THEN EPERM
  ELSE 0

(* set = { ctime }, with uid and gid when they are >= 0 *)
ChownSet(doc, o) ==
  [doc EXCEPT !.ctime = now,
              !.uid = IF o.reqUid >= 0 THEN o.reqUid ELSE @,
              !.gid = IF o.reqGid >= 0 THEN o.reqGid ELSE @,
              !.data = None]

ChownFind(s) ==
  LET o == ops[s]
      doc == inodes[o.target]
  IN /\ o.pc = "co_find"
     /\ Put(s, IF o.target \notin DOMAIN inodes THEN Finish(o, ENOENT)
               ELSE IF ChownCheck(o, doc) # 0 THEN Finish(o, ChownCheck(o, doc))
               ELSE [o EXCEPT !.pc = "co_upd", !.time = now, !.doc = ChownSet(doc, o)])
     /\ UNCHANGED <<directory, inodes, nextDir, nextIno, openFiles, next, now, atimeLevel, idsByValue>>

ChownUpdate(s) ==
  LET o == ops[s]
  IN /\ o.pc = "co_upd"
     /\ IF o.target \in DOMAIN inodes
          THEN /\ inodes' = [inodes EXCEPT ![o.target].ctime = o.doc.ctime,
                                           ![o.target].uid = o.doc.uid,
                                           ![o.target].gid = o.doc.gid]
               /\ Put(s, Finish(o, 0))
          ELSE /\ UNCHANGED inodes
               /\ Put(s, Finish(o, EIO))
     /\ UNCHANGED <<directory, nextDir, nextIno, openFiles, next, now, atimeLevel, idsByValue>>

----------------------------------------------------------------------------
(* Extended attributes.  A string is the sequence of its code points (all  *)
(* below 2048 here), a Buffer the sequence of its bytes, a Base64 string   *)
(* the sequence of its digits, 64 standing for the padding '='.            *)

(* new Buffer(str): the UTF-8 bytes of a string *)
Utf8Char(c) == IF c < 128 THEN <<c>> ELSE <<192 + (c \div 64), 128 + (c % 64)>>
RECURSIVE Utf8(_)
Utf8(str) == IF str = <<>> THEN <<>> ELSE Utf8Char(Head(str)) \o Utf8(Tail(str))

(* buf.toString(): the string of UTF-8 bytes *)
RECURSIVE Utf8Decode(_)
Utf8Decode(bytes) ==
  IF bytes = <<>> THEN <<>>
  ELSE IF bytes[1] < 128 THEN <<bytes[1]>> \o Utf8Decode(Tail(bytes))
  ELSE <<(bytes[1] - 192) * 64 + (bytes[2] - 128)>> \o Utf8Decode(Tail(Tail(bytes)))

(* buf.toString('base64') *)
RECURSIVE Base64(_)
Base64(bytes) ==
  IF bytes = <<>> THEN <<>>
  ELSE IF Len(bytes) = 1
    THEN <<bytes[1] \div 4, (bytes[1] % 4) * 16, 64, 64>>
  ELSE IF Len(bytes) = 2
    THEN <<bytes[1] \div 4, (bytes[1] % 4) * 16 + (bytes[2] \div 16), (bytes[2] % 16) * 4, 64>>
  ELSE <<bytes[1] \div 4, (bytes[1] % 4) * 16 + (bytes[2] \div 16),
         (bytes[2] % 16) * 4 + (bytes[3] \div 64), bytes[3] % 64>>
       \o Base64(SubSeq(bytes, 4, Len(bytes)))

(* new Buffer(str, 'base64') *)
RECURSIVE UnBase64(_)
UnBase64(digits) ==
  IF Len(digits) < 4 THEN <<>>
  ELSE LET b1 == digits[1] * 4 + (digits[2] \div 16)
           b2 == (digits[2] % 16) * 16 + (digits[3] \div 4)
           b3 == (digits[3] % 4) * 64 + digits[4]
       IN IF digits[3] = 64 THEN <<b1>>
          ELSE IF digits[4] = 64 THEN <<b1, b2>>
          ELSE <<b1, b2, b3>> \o UnBase64(SubSeq(digits, 5, Len(digits)))

b64enc(str) == Base64(Utf8(str))
b64dec(str) == Utf8Decode(UnBase64(str))

(* the keys of inode.xattr, and its value under a key *)
XattrKeys(doc) == IF Has(doc.xattr) THEN DOMAIN Val(doc.xattr) ELSE {}
XattrOnly(doc, key, value) == Some(key :> value)
XattrWith(doc, key, value) ==
  Some([k \in XattrKeys(doc) \cup {key} |-> IF k = key THEN value ELSE Val(doc.xattr)[k]])
XattrWithout(doc, key) ==
  IF Has(doc.xattr) THEN Some([k \in XattrKeys(doc) \ {key} |-> Val(doc.xattr)[k]])
  ELSE None

(* getxattr *)
StartGetxattr(s, uid, path, name, len) ==
  /\ FirstFree(s)
  /\ Put(s, StartResolve([Idle EXCEPT !.op = "getxattr", !.uid = uid, !.path = path,
                                      !.name = name, !.size = len],
                         path, "gx_find"))
  /\ UNCHANGED <<directory, inodes, nextDir, nextIno, openFiles, next, now, atimeLevel, idsByValue>>

(* the answer for a destination of len bytes to a value of xalen bytes;    *)
(* copied is what the copy into the destination gives                      *)
ProbeOrCopy(o, len, xalen, copied) ==
  IF len = 0 THEN Finish(o, xalen)
  ELSE IF len < xalen THEN Finish(o, ERANGE)
  ELSE FinishWith(o, Len(copied), copied, NoDoc)

GetxattrFind(s) ==
  LET o == ops[s]
      doc == inodes[o.target]
      bname == b64enc(o.name)
  IN /\ o.pc = "gx_find"
     /\ Put(s, IF o.target \notin DOMAIN inodes THEN Finish(o, ENOENT)
               ELSE IF bname \notin XattrKeys(doc) THEN Finish(o, ENODATA)
               ELSE ProbeOrCopy(o, o.size, Len(Val(doc.xattr)[bname]),
                                SubSeq(Val(doc.xattr)[bname], 1,
                                       Min(o.size, Len(Val(doc.xattr)[bname])))))
     /\ UNCHANGED <<directory, inodes, nextDir, nextIno, openFiles, next, now, atimeLevel, idsByValue>>

(* listxattr *)
StartListxattr(s, uid, path, len) ==
  /\ FirstFree(s)
  /\ Put(s, StartResolve([Idle EXCEPT !.op = "listxattr", !.uid = uid, !.path = path,
                                      !.size = len],
                         path, "lx_find"))
  /\ UNCHANGED <<directory, inodes, nextDir, nextIno, openFiles, next, now, atimeLevel, idsByValue>>

(* Object.keys(inode.xattr), in some order *)
RECURSIVE KeyList(_)
KeyList(keys) ==
  IF keys = {} THEN <<>>
  ELSE LET k == CHOOSE x \in keys : TRUE IN <<k>> \o KeyList(keys \ {k})

(* keys.map(b64dec).join('\0') + '\0' *)
RECURSIVE Joined(_)
Joined(keylist) ==
  IF keylist = <<>> THEN <<>>
  ELSE b64dec(Head(keylist)) \o <<0>> \o Joined(Tail(keylist))

(* buf.write(str) into a Buffer of room bytes: the characters that fit whole *)
RECURSIVE BufWrite(_, _)
BufWrite(str, room) ==
  IF str = <<>> \/ Len(Utf8Char(Head(str))) > room THEN <<>>
  ELSE Utf8Char(Head(str)) \o BufWrite(Tail(str), room - Len(Utf8Char(Head(str))))

(* result.length: a length counted in characters *)
StringLength(str) == Len(str)

ListxattrFind(s) ==
  LET o == ops[s]
      doc == inodes[o.target]
      result == Joined(KeyList(XattrKeys(doc)))
  IN /\ o.pc = "lx_find"
     /\ Put(s, IF o.target \notin DOMAIN inodes THEN Finish(o, ENOENT)
               ELSE IF XattrKeys(doc) = {} THEN Finish(o, 0)
               ELSE IF o.size = 0 THEN Finish(o, StringLength(result))
               ELSE IF o.size < StringLength(result) THEN Finish(o, ERANGE)
               ELSE FinishWith(o, StringLength(result), BufWrite(result, o.size), NoDoc))
     /\ UNCHANGED <<directory, inodes, nextDir, nextIno, openFiles, next, now, atimeLevel, idsByValue>>

(* setxattr *)
StartSetxattr(s, uid, path, name, value) ==
  /\ FirstFree(s)
  /\ Put(s, StartResolve([Idle EXCEPT !.op = "setxattr", !.uid = uid, !.path = path,
                                      !.name = name, !.buf = value],
                         path, "sx_upd"))
  /\ UNCHANGED <<directory, inodes, nextDir, nextIno, openFiles, next, now, atimeLevel, idsByValue>>

(* update({_id}, {$set: {'xattr.<bname>': value}}); no inode matched: no error *)
SetxattrUpdate(s) ==
  LET o == ops[s]
  IN /\ o.pc = "sx_upd"
     /\ inodes' = IF o.target \in DOMAIN inodes
                    THEN [inodes EXCEPT ![o.target].xattr =
                            XattrWith(inodes[o.target], b64enc(o.name), o.buf)]
                    ELSE inodes
     /\ Put(s, Finish(o, 0))
     /\ UNCHANGED <<directory, nextDir, nextIno, openFiles, next, now, atimeLevel, idsByValue>>

(* removexattr *)
StartRemovexattr(s, uid, path, name) ==
  /\ FirstFree(s)
  /\ Put(s, StartResolve([Idle EXCEPT !.op = "removexattr", !.uid = uid, !.path = path,
                                      !.name = name],
                         path, "rx_find"))
  /\ UNCHANGED <<directory, inodes, nextDir, nextIno, openFiles, next, now, atimeLevel, idsByValue>>

RemovexattrFind(s) ==
  LET o == ops[s]
      doc == inodes[o.target]
  IN /\ o.pc = "rx_find"
     /\ Put(s, IF o.target \notin DOMAIN inodes THEN Finish(o, ENOENT)
               ELSE IF b64enc(o.name) \notin XattrKeys(doc) THEN Finish(o, ENODATA)
               ELSE [o EXCEPT !.pc = "rx_upd"])
     /\ UNCHANGED <<directory, inodes, nextDir, nextIno, openFiles, next, now, atimeLevel, idsByValue>>

(* update({_id}, {$unset: {'xattr.<bname>': 1}}); no inode matched: no error *)
RemovexattrUpdate(s) ==
  LET o == ops[s]
  IN /\ o.pc = "rx_upd"
     /\ inodes' = IF o.target \in DOMAIN inodes
                    THEN [inodes EXCEPT ![o.target].xattr =
                            XattrWithout(inodes[o.target], b64enc(o.name))]
                    ELSE inodes
     /\ Put(s, Finish(o, 0))
     /\ UNCHANGED <<directory, nextDir, nextIno, openFiles, next, now, atimeLevel, idsByValue>>

----------------------------------------------------------------------------
(* igetattr, getattr and fgetattr *)

StartGetattr(s, uid, path) ==
  /\ FirstFree(s)
  /\ Put(s, StartResolve([Idle EXCEPT !.op = "getattr", !.uid = uid, !.path = path],
                         path, "ga_find"))
  /\ UNCHANGED <<directory, inodes, nextDir, nextIno, openFiles, next, now, atimeLevel, idsByValue>>

Fgetattr(s, uid, fd) ==
  LET o == [Idle EXCEPT !.op = "fgetattr", !.uid = uid, !.fd = fd]
  IN /\ FirstFree(s)
     /\ Put(s, IF fd \notin DOMAIN openFiles THEN Finish(o, EBADF)
               ELSE [o EXCEPT !.pc = "ga_find", !.target = openFiles[fd].inode])
     /\ UNCHANGED <<directory, inodes, nextDir, nextIno, openFiles, next, now, atimeLevel, idsByValue>>

(* findOne({_id}, {data: false}) *)
IgetattrFind(s) ==
  LET o == ops[s]
  IN /\ o.pc = "ga_find"
     /\ Put(s, IF o.target \notin DOMAIN inodes THEN Finish(o, ENOENT)
               ELSE [o EXCEPT !.pc = "ga_cnt",
                              !.doc = [inodes[o.target] EXCEPT !.data = None]])
     /\ UNCHANGED <<directory, inodes, nextDir, nextIno, openFiles, next, now, atimeLevel, idsByValue>>

(* igetattr that counts no entries *)
WithOneLink(doc, i) == [doc EXCEPT !.nlink = 1]

(* doc.nlink = cnt *)
WithNlink(doc, i) == [doc EXCEPT !.nlink = LinkCount(i)]

(* a size that is looked up again at every call *)
SizeNeverStored(doc) == FALSE

(* doc.size !== undefined *)
SizeStored(doc) == Has(doc.size)

IgetattrCount(s) ==
  LET o == ops[s]
      doc == WithNlink(o.doc, o.target)
  IN /\ o.pc = "ga_cnt"
     /\ Put(s, IF SizeStored(doc) THEN FinishWith(o, 0, <<>>, doc)
               ELSE [o EXCEPT !.pc = "ga_find2", !.doc = doc])
     /\ UNCHANGED <<directory, inodes, nextDir, nextIno, openFiles, next, now, atimeLevel, idsByValue>>

(* doc.size = idoc.data ? idoc.data.length() : 0 *)
SizeOf(idoc) == IF Has(idoc.data) THEN Val(idoc.data).len ELSE 0

IgetattrFindData(s) ==
  LET o == ops[s]
  IN /\ o.pc = "ga_find2"
     /\ Put(s, IF o.target \notin DOMAIN inodes THEN Finish(o, ENOENT)
               ELSE [o EXCEPT !.pc = "ga_upd",
                              !.doc.size = Some(SizeOf(inodes[o.target]))])
     /\ UNCHANGED <<directory, inodes, nextDir, nextIno, openFiles, next, now, atimeLevel, idsByValue>>

IgetattrStoreSize(s) ==
  LET o == ops[s]
  IN /\ o.pc = "ga_upd"
     /\ inodes' = IF o.target \in DOMAIN inodes
                    THEN [inodes EXCEPT ![o.target].size = o.doc.size]
                    ELSE inodes
     /\ Put(s, FinishWith(o, 0, <<>>, o.doc))
     /\ UNCHANGED <<directory, nextDir, nextIno, openFiles, next, now, atimeLevel, idsByValue>>

----------------------------------------------------------------------------
(* itruncate, truncate and ftruncate *)

StartTruncate(s, uid, path, size) ==
  /\ FirstFree(s)
  /\ Put(s, StartResolve([Idle EXCEPT !.op = "truncate", !.uid = uid, !.path = path,
                                      !.size = size],
                         path, "tr_find"))
  /\ UNCHANGED <<directory, inodes, nextDir, nextIno, openFiles, next, now, atimeLevel, idsByValue>>

Ftruncate(s, uid, fd, size) ==
  LET o == [Idle EXCEPT !.op = "ftruncate", !.uid = uid, !.fd = fd, !.size = size]
  IN /\ FirstFree(s)
     /\ Put(s, IF fd \notin DOMAIN openFiles THEN Finish(o, EBADF)
               ELSE [o EXCEPT !.pc = "tr_find", !.target = openFiles[fd].inode])
     /\ UNCHANGED <<directory, inodes, nextDir, nextIno, openFiles, next, now, atimeLevel, idsByValue>>

(* a limit that refuses sixteen million bytes too *)
TooBigFrom(size) == size >= MaxDocSize

(* `if (size > 16000000) { return cb(fuse.EFBIG); }` *)
TooBig(size) == size > MaxDocSize

(* itruncate that looks at the size before the permission *)
TruncateCheckSizeFirst(o) ==
  IF o.target \notin DOMAIN inodes THEN ENOENT
  ELSE IF TooBig(o.size) THEN EFBIG
  ELSE IF chkaccess(inodes[o.target], 2, o.uid) # 0
    THEN chkaccess(inodes[o.target], 2, o.uid)
  ELSE 0

(* what itruncate answers to the inode it looked up (0: go on) *)
TruncateCheck(o) ==
  IF o.target \notin DOMAIN inodes THEN ENOENT
  ELSE IF chkaccess(inodes[o.target], 2, o.uid) # 0
    THEN chkaccess(inodes[o.target], 2, o.uid)
  ELSE IF TooBig(o.size) THEN EFBIG
  ELSE 0

ItruncateFind(s) ==
  LET o == ops[s]
  IN /\ o.pc = "tr_find"
     /\ Put(s, IF TruncateCheck(o) # 0 THEN Finish(o, TruncateCheck(o))
               ELSE [o EXCEPT !.pc = "tr_upd", !.time = now, !.doc = inodes[o.target],
                              !.newdata = Some(BinTruncate(inodes[o.target].data, o.size))])
     /\ UNCHANGED <<directory, inodes, nextDir, nextIno, openFiles, next, now, atimeLevel, idsByValue>>

(* the $set of itruncate *)
TruncateSet(doc, o) == [doc EXCEPT !.ctime = o.time, !.mtime = o.time, !.data = o.newdata]

ItruncateUpdate(s) ==
  LET o == ops[s]
  IN /\ o.pc = "tr_upd"
     /\ IF o.target \in DOMAIN inodes
          THEN /\ inodes' = [inodes EXCEPT ![o.target] = TruncateSet(@, o)]
               /\ Put(s, FinishWith(o, 0, <<>>, o.doc))
          ELSE /\ UNCHANGED inodes
               /\ Put(s, Finish(o, EIO))
     /\ UNCHANGED <<directory, nextDir, nextIno, openFiles, next, now, atimeLevel, idsByValue>>

----------------------------------------------------------------------------
(* write *)

(* a handle that passes every access mode *)
AnyMode(flags) == FALSE

(* (flags & 0x3) === 0x0: the handle was opened O_RDONLY *)
ReadOnly(flags) == flags % 4 = 0

Write(s, uid, fd, buf, pos) ==
  LET o == [Idle EXCEPT !.op = "write", !.uid = uid, !.fd = fd, !.buf = buf, !.pos = pos]
  IN /\ FirstFree(s)
     /\ Put(s, IF fd \notin DOMAIN openFiles THEN Finish(o, EBADF)
               ELSE IF ReadOnly(openFiles[fd].flags) THEN Finish(o, EBADF)
               ELSE [o EXCEPT !.pc = "wr_find", !.target = openFiles[fd].inode])
     /\ UNCHANGED <<directory, inodes, nextDir, nextIno, openFiles, next, now, atimeLevel, idsByValue>>

WriteFind(s) ==
  LET o == ops[s]
  IN /\ o.pc = "wr_find"
     /\ Put(s, IF o.target \notin DOMAIN inodes THEN Finish(o, ENOENT)
               ELSE IF FileType(inodes[o.target].mode) = S_IFDIR THEN Finish(o, EISDIR)
               ELSE [o EXCEPT !.pc = "wr_cb", !.doc = inodes[o.target]])
     /\ UNCHANGED <<directory, inodes, nextDir, nextIno, openFiles, next, now, atimeLevel, idsByValue>>

(* doc.data after `doc.data.write(dstbuf, pos)` *)
Written(o) == BinWrite(IF Has(o.doc.data) THEN Val(o.doc.data) ELSE EmptyBin, o.buf, o.pos)

(* `if (doc.data.length() > 16000000) { return cb(fuse.EFBIG); }` *)
WriteTooBig(o) == Written(o).len > MaxDocSize

(* The callback of write's findOne.  It reads mf.openFiles[fd].inode again *)
(* for the update's query: a TypeError when the handle is gone.            *)
WriteCallback(s) ==
  LET o == ops[s]
  IN /\ o.pc = "wr_cb"
     /\ Put(s, IF WriteTooBig(o) THEN Finish(o, EFBIG)
               ELSE IF o.fd \notin DOMAIN openFiles THEN [o EXCEPT !.pc = "thrown"]
               ELSE [o EXCEPT !.pc = "wr_upd", !.time = now,
                              !.target = openFiles[o.fd].inode,
                              !.newdata = Some(Written(o))])
     /\ UNCHANGED <<directory, inodes, nextDir, nextIno, openFiles, next, now, atimeLevel, idsByValue>>

(* a $set whose size is the length of the bytes written *)
WriteSetWritten(doc, o) ==
  [doc EXCEPT !.ctime = o.time, !.mtime = o.time, !.size = Some(Len(o.buf)),
              !.data = o.newdata]

(* the $set of write *)
WriteSet(doc, o) ==
  [doc EXCEPT !.ctime = o.time, !.mtime = o.time, !.size = Some(Val(o.newdata).len),
              !.data = o.newdata]

WriteUpdate(s) ==
  LET o == ops[s]
  IN /\ o.pc = "wr_upd"
     /\ IF o.target \in DOMAIN inodes
          THEN /\ inodes' = [inodes EXCEPT ![o.target] = WriteSet(@, o)]
               /\ Put(s, FinishWith(o, Len(o.buf), <<>>, o.doc))
          ELSE /\ UNCHANGED inodes
               /\ Put(s, Finish(o, EIO))
     /\ UNCHANGED <<directory, nextDir, nextIno, openFiles, next, now, atimeLevel, idsByValue>>

----------------------------------------------------------------------------
(* chkatime and read *)

DayMs == 86400000  \* 24 * 60 * 60 * 1000

(* every policy but off refreshes at every access *)
NeedsAtimeAlways(doc) == atimeLevel # 0

(* the relative policy with "older than" and "more than a day" taken strictly *)
NeedsAtimeOlder(doc) ==
  \/ atimeLevel = 2
  \/ /\ atimeLevel = 1
     /\ \/ doc.mtime > doc.atime
        \/ doc.ctime > doc.atime
        \/ now - doc.atime > DayMs

NeedsAtime(doc) ==
  \/ atimeLevel = 2
  \/ /\ atimeLevel = 1
     /\ \/ doc.mtime >= doc.atime
        \/ doc.ctime >= doc.atime
        \/ now - doc.atime >= DayMs

(* (flags & 0x3) === 0x1: the handle was opened O_WRONLY *)
WriteOnly(flags) == flags % 4 = 1

Read(s, uid, fd, len, pos) ==
  LET o == [Idle EXCEPT !.op = "read", !.uid = uid, !.fd = fd, !.size = len, !.pos = pos]
  IN /\ FirstFree(s)
     /\ Put(s, IF fd \notin DOMAIN openFiles THEN Finish(o, EBADF)
               ELSE IF WriteOnly(openFiles[fd].flags) THEN Finish(o, EBADF)
               ELSE [o EXCEPT !.pc = "rd_find", !.target = openFiles[fd].inode])
     /\ UNCHANGED <<directory, inodes, nextDir, nextIno, openFiles, next, now, atimeLevel, idsByValue>>

(* the inode as chkatime leaves it in the handler's hands *)
Chkatime(doc) == IF NeedsAtime(doc) THEN [doc EXCEPT !.atime = now] ELSE doc

(* read's answer once the atime is dealt with: the bytes copied and their   *)
(* count; the slot keeps the inode as the handler had it, the atime it     *)
(* found, and when it looked                                               *)
ReadAnswer(o, doc) ==
  [FinishWith(o, IF Has(doc.data) THEN Len(BinRead(Val(doc.data), o.pos, o.size)) ELSE 0,
              IF Has(doc.data) THEN BinRead(Val(doc.data), o.pos, o.size) ELSE <<>>,
              doc)
     EXCEPT !.saved = o.saved]

ReadFind(s) ==
  LET o == ops[s]
      doc == inodes[o.target]
      n == [o EXCEPT !.time = now, !.saved = doc.atime]
  IN /\ o.pc = "rd_find"
     /\ Put(s, IF o.target \notin DOMAIN inodes THEN Finish(o, ENOENT)
               ELSE IF FileType(doc.mode) = S_IFDIR THEN Finish(o, EISDIR)
               ELSE IF NeedsAtime(doc)
                 THEN [n EXCEPT !.pc = "rd_atime", !.doc = Chkatime(doc)]
               ELSE ReadAnswer(n, doc))
     /\ UNCHANGED <<directory, inodes, nextDir, nextIno, openFiles, next, now, atimeLevel, idsByValue>>

ReadAtime(s) ==
  LET o == ops[s]
  IN /\ o.pc = "rd_atime"
     /\ inodes' = IF o.target \in DOMAIN inodes
                    THEN [inodes EXCEPT ![o.target].atime = o.time]
                    ELSE inodes
     /\ Put(s, ReadAnswer(o, o.doc))
     /\ UNCHANGED <<directory, nextDir, nextIno, openFiles, next, now, atimeLevel, idsByValue>>

----------------------------------------------------------------------------
(* readdir *)

RECURSIVE InOrder(_)
InOrder(ids) ==
  IF ids = {} THEN <<>>
  ELSE LET m == CHOOSE x \in ids : \A y \in ids : x <= y
       IN <<m>> \o InOrder(ids \ {m})

(* a listing of every entry of the collection *)
AllEntries(d) == DOMAIN directory

(* db.directory.find({ parent: dirent._id }), mapped to the names *)
Children(d) == {c \in DOMAIN directory : directory[c].parent = d}
ChildNames(d) == [k \in 1..Cardinality(Children(d)) |-> directory[InOrder(Children(d))[k]].name]

StartReaddir(s, uid, path) ==
  /\ FirstFree(s)
  /\ Put(s, StartResolve([Idle EXCEPT !.op = "readdir", !.uid = uid, !.path = path],
                         path, "rdd_find"))
  /\ UNCHANGED <<directory, inodes, nextDir, nextIno, openFiles, next, now, atimeLevel, idsByValue>>

(* readdir_inner: the listing *)
ReaddirInner(o) == FinishWith(o, 0, <<".", "..">> \o ChildNames(o.saved), o.doc)

(* With atime off the listing is the next store call; otherwise the inode  *)
(* is looked up and handed to chkatime.                                    *)
ReaddirFind(s) ==
  LET o == ops[s]
      doc == inodes[o.target]
      n == [o EXCEPT !.time = now]
  IN /\ o.pc = "rdd_find"
     /\ Put(s, IF atimeLevel = 0 THEN ReaddirInner(n)
               ELSE IF o.target \notin DOMAIN inodes THEN [o EXCEPT !.pc = "thrown"]
               ELSE IF NeedsAtime(doc)
                 THEN [n EXCEPT !.pc = "rdd_atime", !.doc = Chkatime(doc)]
               ELSE [n EXCEPT !.pc = "rdd_list", !.doc = doc])
     /\ UNCHANGED <<directory, inodes, nextDir, nextIno, openFiles, next, now, atimeLevel, idsByValue>>

ReaddirAtime(s) ==
  LET o == ops[s]
  IN /\ o.pc = "rdd_atime"
     /\ inodes' = IF o.target \in DOMAIN inodes
                    THEN [inodes EXCEPT ![o.target].atime = o.time]
                    ELSE inodes
     /\ Put(s, [o EXCEPT !.pc = "rdd_list"])
     /\ UNCHANGED <<directory, nextDir, nextIno, openFiles, next, now, atimeLevel, idsByValue>>

ReaddirList(s) ==
  LET o == ops[s]
  IN /\ o.pc = "rdd_list"
     /\ Put(s, ReaddirInner(o))
     /\ UNCHANGED <<directory, inodes, nextDir, nextIno, openFiles, next, now, atimeLevel, idsByValue>>

----------------------------------------------------------------------------
(* symlink *)

SymlinkMode == 41471  \* 0o120777

(* doMknod of an inode whose data is `new Binary(new Buffer(src), 0)`: the *)
(* UTF-8 bytes of the target                                               *)
StartSymlink(s, uid, src, dest) ==
  /\ FirstFree(s) /\ MayInsertInode /\ MayInsertEntry
  /\ Put(s, StartResolve([Idle EXCEPT !.op = "symlink", !.uid = uid, !.path = dest,
                                      !.mode = SymlinkMode, !.time = now, !.name = src,
                                      !.newdata = Some(BinOf(Utf8(src)))],
                         Dirname(dest), "mk_ino"))
  /\ UNCHANGED <<directory, inodes, nextDir, nextIno, openFiles, next, now, atimeLevel, idsByValue>>

----------------------------------------------------------------------------
(* readlink *)

S_IFLNK == 40960  \* 0o120000

(* buf.toString('binary'): one character for each byte, of the byte's code *)
Latin1(bytes) == [i \in 1..Len(bytes) |-> bytes[i]]

(* Binary.value(): the bytes as a 'binary' string *)
BinValue(bin) == Latin1(BinRead(bin, 0, bin.len))

StartReadlink(s, uid, path) ==
  /\ FirstFree(s)
  /\ Put(s, StartResolve([Idle EXCEPT !.op = "readlink", !.uid = uid, !.path = path],
                         path, "rl_find"))
  /\ UNCHANGED <<directory, inodes, nextDir, nextIno, openFiles, next, now, atimeLevel, idsByValue>>

(* cb(0, doc.data.value()): the target, or a TypeError when there is no data *)
ReadlinkAnswer(o, doc) ==
  IF Has(doc.data) THEN FinishWith(o, 0, BinValue(Val(doc.data)), doc)
  ELSE [o EXCEPT !.pc = "thrown"]

ReadlinkFind(s) ==
  LET o == ops[s]
      doc == inodes[o.target]
      n == [o EXCEPT !.time = now]
  IN /\ o.pc = "rl_find"
     /\ Put(s, IF o.target \notin DOMAIN inodes THEN Finish(o, ENOENT)
               ELSE IF FileType(doc.mode) # S_IFLNK THEN Finish(o, EINVAL)
               ELSE IF NeedsAtime(doc)
                 THEN [n EXCEPT !.pc = "rl_atime", !.doc = Chkatime(doc)]
               ELSE ReadlinkAnswer(n, doc))
     /\ UNCHANGED <<directory, inodes, nextDir, nextIno, openFiles, next, now, atimeLevel, idsByValue>>

ReadlinkAtime(s) ==
  LET o == ops[s]
  IN /\ o.pc = "rl_atime"
     /\ inodes' = IF o.target \in DOMAIN inodes
                    THEN [inodes EXCEPT ![o.target].atime = o.time]
                    ELSE inodes
     /\ Put(s, ReadlinkAnswer(o, o.doc))
     /\ UNCHANGED <<directory, nextDir, nextIno, openFiles, next, now, atimeLevel, idsByValue>>

(* the clock *)
Tick ==
  /\ now % DayMs < MaxTime
  /\ now' = now + 1
  /\ UNCHANGED <<directory, inodes, nextDir, nextIno, openFiles, next, atimeLevel, idsByValue, ops>>

(* a day goes by *)
Sleep ==
  /\ now < DayMs
  /\ now' = now + DayMs
  /\ UNCHANGED <<directory, inodes, nextDir, nextIno, openFiles, next, atimeLevel, idsByValue, ops>>

----------------------------------------------------------------------------
(* The stores the handlers start from, and the handlers that run          *)

FileMode == 33188  \* 0o100644
DirMode == 493     \* 0o755

RootInode ==
  [id |-> 1, mode |-> RootMode, uid |-> 0, gid |-> 0, ctime |-> 0, mtime |-> 0,
   atime |-> 0, size |-> None, data |-> None, nlink |-> 0, xattr |-> None]

Unmounted ==
  /\ directory = <<>>
  /\ inodes = <<>>
  /\ nextDir = 0
  /\ nextIno = 0
  /\ openFiles = <<>>
  /\ next = FirstFd
  /\ now = 0
  /\ atimeLevel = 0
  /\ idsByValue \in BOOLEAN
  /\ ops = [s \in Slots |-> Idle]

Fds == FirstFd .. (FirstFd + MaxFds - 1)

Resolve(s) ==
  \/ \E d \in DOMAIN directory : ResolveFound(s, d)
  \/ ResolveMissing(s)

(* A store that holds the root and one regular file, /a *)
MountedWithFile ==
  /\ directory = (1 :> [name |-> "", parent |-> 0, inode |-> 1])
                 @@ (2 :> [name |-> "a", parent |-> 1, inode |-> 2])
  /\ inodes = (1 :> RootInode)
              @@ (2 :> [RootInode EXCEPT !.id = 2, !.mode = FileMode])
  /\ nextDir = 2
  /\ nextIno = 2
  /\ openFiles = <<>>
  /\ next = FirstFd
  /\ now = 0
  /\ atimeLevel = 0
  /\ idsByValue \in BOOLEAN
  /\ ops = [s \in Slots |-> Idle]

(* The handlers one at a time, from an empty store *)
Init == Unmounted

Next ==
  \E s \in {1} :
    \/ StartInit(s, 0)
    \/ \E p \in FlatPaths : StartMknod(s, 0, p, FileMode)
    \/ \E p \in FlatPaths : StartMkdir(s, 0, p, DirMode)
    \/ \E p \in FlatPaths \cup {RootPath}, q \in FlatPaths : StartLink(s, 0, p, q)
    \/ \E p \in FlatPaths, q \in FlatPaths : StartRename(s, 0, p, q)
    \/ \E p \in FlatPaths : StartUnlink(s, 0, p)
    \/ \E p \in FlatPaths : StartRmdir(s, 0, p)
    \/ \E p \in FlatPaths \cup {RootPath} : StartOpen(s, 0, p, 2)
    \/ \E fd \in Fds : Release(s, 0, fd)
    \/ \E p \in FlatPaths \cup {RootPath} : StartGetattr(s, 0, p)
    \/ \E fd \in Fds : Fgetattr(s, 0, fd)
    \/ Return(s)
    \/ Resolve(s)
    \/ InitDone(s)
    \/ InsertInode(s) \/ InsertEntry(s)
    \/ LinkFind(s) \/ LinkInsert(s)
    \/ RenameUpdate(s)
    \/ UnlinkRemove(s) \/ UnlinkIremove(s) \/ RmdirCount(s)
    \/ IremoveCount(s) \/ IremoveRemove(s)
    \/ OpenFind(s) \/ OpenAdd(s)
    \/ IgetattrFind(s) \/ IgetattrCount(s) \/ IgetattrFindData(s) \/ IgetattrStoreSize(s)

Spec == Init /\ [][Next]_vars

(* unlink, rmdir, link, rename, open and release two at a time, against a  *)
(* store that holds one file                                               *)
NextRace ==
  \E s \in Slots :
    \/ \E p \in FlatPaths : \E q \in FlatPaths \ {p} : StartLink(s, 0, p, q)
    \/ \E p \in FlatPaths : \E q \in FlatPaths \ {p} : StartRename(s, 0, p, q)
    \/ \E p \in FlatPaths : StartUnlink(s, 0, p)
    \/ \E p \in FlatPaths : StartRmdir(s, 0, p)
    \/ \E p \in FlatPaths : StartOpen(s, 0, p, 2)
    \/ \E fd \in Fds : Release(s, 0, fd)
    \/ Return(s)
    \/ Resolve(s)
    \/ LinkFind(s) \/ LinkInsert(s)
    \/ RenameUpdate(s)
    \/ UnlinkRemove(s) \/ UnlinkIremove(s) \/ RmdirCount(s)
    \/ IremoveCount(s) \/ IremoveRemove(s)
    \/ OpenFind(s) \/ OpenAdd(s)

SpecRace == MountedWithFile /\ [][NextRace]_vars

----------------------------------------------------------------------------
(* The data handlers one at a time, on one regular file that its owner has *)
(* open                                                                    *)

Owner == 1

(* arguments of the calls *)
Bufs == {<<1>>, <<2, 1>>}
Positions == {0, 1, MaxDocSize - 1}
Sizes == {0, 1, MaxDocSize - 1, MaxDocSize, MaxDocSize + 1, 20000000}
(* O_RDONLY, O_WRONLY, O_RDWR *)
OpenFlags == {0, 1, 2}
Lengths == {1, 2}

FileInode ==
  [id |-> 2, mode |-> FileMode, uid |-> Owner, gid |-> Owner, ctime |-> 0, mtime |-> 0,
   atime |-> 0, size |-> None, data |-> None, nlink |-> 0, xattr |-> None]

InitData ==
  /\ directory = (1 :> [name |-> "", parent |-> 0, inode |-> 1])
                 @@ (2 :> [name |-> "a", parent |-> 1, inode |-> 2])
  /\ inodes = (1 :> RootInode) @@ (2 :> FileInode)
  /\ nextDir = 2
  /\ nextIno = 2
  /\ openFiles = <<>>
  /\ next = FirstFd
  /\ now = 0
  /\ atimeLevel \in 0..2
  /\ idsByValue \in BOOLEAN
  /\ ops = [s \in Slots |-> Idle]

NextData ==
  \/ Tick
  \/ \E s \in {1} :
       \/ StartOpen(s, Owner, <<"a">>, 2)
       \/ \E fd \in Fds, b \in Bufs, pos \in Positions : Write(s, Owner, fd, b, pos)
       \/ \E fd \in Fds, len \in Lengths, pos \in Positions : Read(s, Owner, fd, len, pos)
       \/ \E n \in Sizes : StartTruncate(s, Owner, <<"a">>, n)
       \/ \E fd \in Fds, n \in Sizes : Ftruncate(s, Owner, fd, n)
       \/ \E p \in FlatPaths : StartGetattr(s, Owner, p)
       \/ \E fd \in Fds : Fgetattr(s, Owner, fd)
       \/ Return(s)
       \/ Resolve(s)
       \/ OpenFind(s) \/ OpenAdd(s)
       \/ WriteFind(s) \/ WriteCallback(s) \/ WriteUpdate(s)
       \/ ReadFind(s) \/ ReadAtime(s)
       \/ ItruncateFind(s) \/ ItruncateUpdate(s)
       \/ IgetattrFind(s) \/ IgetattrCount(s) \/ IgetattrFindData(s) \/ IgetattrStoreSize(s)

SpecData == InitData /\ [][NextData]_vars

----------------------------------------------------------------------------
(* access on one file of any permission bits, by root, by the owner, by a  *)
(* member of the file's group and by somebody else                         *)

Callers == {0, 1, 2, 3}
PermBits == 0..511
RequestedModes == -1..8

InitAccess ==
  /\ directory = (1 :> [name |-> "", parent |-> 0, inode |-> 1])
                 @@ (2 :> [name |-> "a", parent |-> 1, inode |-> 2])
  /\ \E perm \in PermBits :
       inodes = (1 :> RootInode) @@ (2 :> [FileInode EXCEPT !.mode = (FileMode \div 512) * 512 + perm])
  /\ nextDir = 2
  /\ nextIno = 2
  /\ openFiles = <<>>
  /\ next = FirstFd
  /\ now = 0
  /\ atimeLevel = 0
  /\ idsByValue \in BOOLEAN
  /\ ops = [s \in Slots |-> Idle]

NextAccess ==
  \E s \in {1} :
    \/ \E uid \in Callers, p \in FlatPaths, m \in RequestedModes : StartAccess(s, uid, p, m)
    \/ Return(s)
    \/ Resolve(s)
    \/ AccessFind(s)

SpecAccess == InitAccess /\ [][NextAccess]_vars

(* Access times: the root, a file /a held open for reading and writing by *)
(* its owner, and a symlink /b to it, under each atime policy, used by one *)
(* caller that waits for each answer before its next call.                 *)
LinkInode ==
  [id |-> 3, mode |-> SymlinkMode, uid |-> Owner, gid |-> Owner, ctime |-> 0, mtime |-> 0,
   atime |-> 0, size |-> None, data |-> Some(BinOf(<<97>>)), nlink |-> 0, xattr |-> None]

InitAtime ==
  /\ directory = (1 :> [name |-> "", parent |-> 0, inode |-> 1])
                 @@ (2 :> [name |-> "a", parent |-> 1, inode |-> 2])
                 @@ (3 :> [name |-> "b", parent |-> 1, inode |-> 3])
  /\ inodes = (1 :> RootInode) @@ (2 :> FileInode) @@ (3 :> LinkInode)
  /\ nextDir = 3
  /\ nextIno = 3
  /\ openFiles = (FirstFd :> [inode |-> 2, flags |-> 2])
  /\ next = FirstFd + 1
  /\ now = 0
  /\ atimeLevel \in 0..2
  /\ idsByValue \in BOOLEAN
  /\ ops = [s \in Slots |-> Idle]

NoneRunning == \A s \in Slots : ops[s].pc \in {"idle", "done"}

NextAtime ==
  \/ Tick
  \/ Sleep
  \/ \E s \in Slots :
       \/ NoneRunning /\ Read(s, Owner, FirstFd, 2, 0)
       \/ NoneRunning /\ Write(s, Owner, FirstFd, <<1>>, 0)
       \/ NoneRunning /\ StartReaddir(s, Owner, RootPath)
       \/ NoneRunning /\ \E p \in FlatPaths \cup {<<"b", "a">>} : StartReadlink(s, Owner, p)
       \/ Return(s)
       \/ Resolve(s)
       \/ ReadFind(s) \/ ReadAtime(s)
       \/ WriteFind(s) \/ WriteCallback(s) \/ WriteUpdate(s)
       \/ ReaddirFind(s) \/ ReaddirAtime(s) \/ ReaddirList(s)
       \/ ReadlinkFind(s) \/ ReadlinkAtime(s)

SpecAtime == InitAtime /\ [][NextAtime]_vars

(* A tree: the root, the directory /a and the file /a/b, listed, looked   *)
(* up, renamed and removed by one caller at a time, with a store that may  *)
(* answer a lookup with an error.                                          *)
DeepPaths == {RootPath} \cup FlatPaths \cup {<<n, m>> : n \in Names, m \in Names}

InitTree ==
  /\ directory = (1 :> [name |-> "", parent |-> 0, inode |-> 1])
                 @@ (2 :> [name |-> "a", parent |-> 1, inode |-> 2])
                 @@ (3 :> [name |-> "b", parent |-> 2, inode |-> 3])
  /\ inodes = (1 :> RootInode)
              @@ (2 :> [RootInode EXCEPT !.id = 2, !.mode = S_IFDIR + DirMode])
              @@ (3 :> [FileInode EXCEPT !.id = 3])
  /\ nextDir = 3
  /\ nextIno = 3
  /\ openFiles = <<>>
  /\ next = FirstFd
  /\ now = 0
  /\ atimeLevel \in 0..2
  /\ idsByValue \in BOOLEAN
  /\ ops = [s \in Slots |-> Idle]

NextTree ==
  \/ \E s \in {1} :
       \/ \E p \in DeepPaths : StartReaddir(s, 0, p)
       \/ \E p \in DeepPaths : StartGetattr(s, 0, p)
       \/ \E p \in DeepPaths \ {RootPath} : \E q \in DeepPaths \ {RootPath} :
            StartRename(s, 0, p, q)
       \/ \E p \in DeepPaths : StartUnlink(s, 0, p)
       \/ \E p \in DeepPaths : StartRmdir(s, 0, p)
       \/ Return(s)
       \/ Resolve(s)
       \/ ResolveFails(s)
       \/ ReaddirFind(s) \/ ReaddirAtime(s) \/ ReaddirList(s)
       \/ IgetattrFind(s) \/ IgetattrCount(s) \/ IgetattrFindData(s) \/ IgetattrStoreSize(s)
       \/ RenameUpdate(s)
       \/ UnlinkRemove(s) \/ UnlinkIremove(s) \/ RmdirCount(s)
       \/ IremoveCount(s) \/ IremoveRemove(s)

SpecTree == InitTree /\ [][NextTree]_vars

(* rmdir of the empty directory /a while the file /b is renamed into it   *)
(* and out of it again, two calls at a time.                               *)
InitRmdir ==
  /\ directory = (1 :> [name |-> "", parent |-> 0, inode |-> 1])
                 @@ (2 :> [name |-> "a", parent |-> 1, inode |-> 2])
                 @@ (3 :> [name |-> "b", parent |-> 1, inode |-> 3])
  /\ inodes = (1 :> RootInode)
              @@ (2 :> [RootInode EXCEPT !.id = 2, !.mode = S_IFDIR + DirMode])
              @@ (3 :> [FileInode EXCEPT !.id = 3])
  /\ nextDir = 3
  /\ nextIno = 3
  /\ openFiles = <<>>
  /\ next = FirstFd
  /\ now = 0
  /\ atimeLevel \in 0..2
  /\ idsByValue \in BOOLEAN
  /\ ops = [s \in Slots |-> Idle]

NextRmdir ==
  \E s \in Slots :
    \/ StartRmdir(s, 0, <<"a">>)
    \/ StartRename(s, 0, <<"b">>, <<"a", "b">>)
    \/ StartRename(s, 0, <<"a", "b">>, <<"b">>)
    \/ Return(s)
    \/ Resolve(s)
    \/ RenameUpdate(s)
    \/ RmdirCount(s)
    \/ UnlinkRemove(s) \/ UnlinkIremove(s)
    \/ IremoveCount(s) \/ IremoveRemove(s)

SpecRmdir == InitRmdir /\ [][NextRmdir]_vars

(* Ownership: the file /a of user 1 is chmodded and chowned by the         *)
(* superuser, its owner, another member of the owner's group and a         *)
(* stranger, one call at a time.                                           *)
ChmodModes == {0, 4095, S_IFDIR + 448, SymlinkMode}
ChownUids == {-1, 0, 1, 2}
ChownGids == {-1, 1, 2}

InitOwner ==
  /\ directory = (1 :> [name |-> "", parent |-> 0, inode |-> 1])
                 @@ (2 :> [name |-> "a", parent |-> 1, inode |-> 2])
  /\ inodes = (1 :> RootInode) @@ (2 :> FileInode)
  /\ nextDir = 2
  /\ nextIno = 2
  /\ openFiles = <<>>
  /\ next = FirstFd
  /\ now = 0
  /\ atimeLevel = 1
  /\ idsByValue \in BOOLEAN
  /\ ops = [s \in Slots |-> Idle]

NextOwner ==
  \/ Tick
  \/ \E s \in {1} :
       \/ \E uid \in Callers, p \in FlatPaths, m \in ChmodModes : StartChmod(s, uid, p, m)
       \/ \E uid \in Callers, u \in ChownUids, g \in ChownGids :
            StartChown(s, uid, <<"a">>, u, g)
       \/ Return(s)
       \/ Resolve(s)
       \/ ChmodFind(s) \/ ChmodUpdate(s)
       \/ ChownFind(s) \/ ChownUpdate(s)

SpecOwner == InitOwner /\ [][NextOwner]_vars

(* Access modes: the file /a, which has a payload, is opened read-only,   *)
(* write-only or for both by its owner, then read and written.             *)
InitModes ==
  /\ directory = (1 :> [name |-> "", parent |-> 0, inode |-> 1])
                 @@ (2 :> [name |-> "a", parent |-> 1, inode |-> 2])
  /\ inodes = (1 :> RootInode) @@ (2 :> [FileInode EXCEPT !.data = Some(BinOf(<<2, 1>>))])
  /\ nextDir = 2
  /\ nextIno = 2
  /\ openFiles = <<>>
  /\ next = FirstFd
  /\ now = 0
  /\ atimeLevel \in 0..2
  /\ idsByValue \in BOOLEAN
  /\ ops = [s \in Slots |-> Idle]

NextModes ==
  \/ Tick
  \/ \E s \in {1} :
       \/ \E p \in FlatPaths, flags \in OpenFlags : StartOpen(s, Owner, p, flags)
       \/ \E fd \in Fds, b \in Bufs, pos \in {0, 1} : Write(s, Owner, fd, b, pos)
       \/ \E fd \in Fds, len \in Lengths, pos \in {0, 1} : Read(s, Owner, fd, len, pos)
       \/ Return(s)
       \/ Resolve(s)
       \/ OpenFind(s) \/ OpenAdd(s)
       \/ WriteFind(s) \/ WriteCallback(s) \/ WriteUpdate(s)
       \/ ReadFind(s) \/ ReadAtime(s)

SpecModes == InitModes /\ [][NextModes]_vars

(* Handles: the file /a and the root directory, opened and released with  *)
(* two calls in flight while /a may be unlinked, and the handle-taking     *)
(* calls with handles never handed out, open and released.                 *)
AnyFds == (FirstFd - 1) .. (FirstFd + MaxHandles - 1)

InitHandles ==
  /\ directory = (1 :> [name |-> "", parent |-> 0, inode |-> 1])
                 @@ (2 :> [name |-> "a", parent |-> 1, inode |-> 2])
  /\ inodes = (1 :> RootInode) @@ (2 :> FileInode)
  /\ nextDir = 2
  /\ nextIno = 2
  /\ openFiles = <<>>
  /\ next = FirstFd
  /\ now = 0
  /\ atimeLevel = 1
  /\ idsByValue \in BOOLEAN
  /\ ops = [s \in Slots |-> Idle]

NextHandles ==
  \/ \E s \in Slots :
       \/ MayOpenUpTo(MaxHandles) /\ OpenCall(s, Owner, <<"a">>, 2)
       \/ \E fd \in AnyFds : Release(s, Owner, fd)
       \/ Return(s)
       \/ Resolve(s)
       \/ OpenFind(s) \/ OpenAdd(s)
       \/ IremoveCount(s) \/ IremoveRemove(s)
  \/ \E s \in {1} :
       \/ MayOpenUpTo(MaxHandles) /\ OpenCall(s, Owner, RootPath, O_DIRECTORY)
       \/ StartUnlink(s, 0, <<"a">>)
       \/ UnlinkRemove(s) \/ UnlinkIremove(s)
       \/ \E fd \in AnyFds : Write(s, Owner, fd, <<1>>, 0)
       \/ \E fd \in AnyFds : Read(s, Owner, fd, 1, 0)
       \/ \E fd \in AnyFds : Ftruncate(s, Owner, fd, 1)
       \/ \E fd \in AnyFds : Fgetattr(s, Owner, fd)
       \/ WriteFind(s) \/ WriteCallback(s) \/ WriteUpdate(s)
       \/ ReadFind(s) \/ ReadAtime(s)
       \/ ItruncateFind(s) \/ ItruncateUpdate(s)
       \/ IgetattrFind(s) \/ IgetattrCount(s) \/ IgetattrFindData(s) \/ IgetattrStoreSize(s)

SpecHandles == InitHandles /\ [][NextHandles]_vars

(* open and opendir of the root, of the file /a of mode 0644 and of a path *)
(* that does not resolve, by root, the owner and a stranger, with every    *)
(* access mode and with O_DIRECTORY, while /a may be unlinked              *)
Stranger == 3
OpenCallers == {0, Owner, Stranger}
AllOpenFlags == {0, 1, 2, 3, O_DIRECTORY, O_DIRECTORY + 3}
OpenPaths == {RootPath, <<"a">>, <<"b">>}

NextOpen ==
  \E s \in Slots :
    \/ \E u \in OpenCallers, p \in OpenPaths, f \in AllOpenFlags :
         MayOpenUpTo(MaxHandles) /\ OpenCall(s, u, p, f)
    \/ StartUnlink(s, 0, <<"a">>)
    \/ Return(s)
    \/ Resolve(s)
    \/ OpenFind(s) \/ OpenAdd(s)
    \/ UnlinkRemove(s) \/ UnlinkIremove(s)
    \/ IremoveCount(s) \/ IremoveRemove(s)

SpecOpen == InitHandles /\ [][NextOpen]_vars

(* Extended attributes of the file /a: names of one, two and three UTF-8  *)
(* bytes ("u", "\u00e9", "uvw"), set, read, listed and removed one call at  *)
(* a time.                                                                 *)
XattrNames == {<<117>>, <<233>>, <<117, 118, 119>>}
XattrValues == {<<>>, <<1>>, <<2, 1>>}
XattrLens == 0..9

InitXattr ==
  /\ directory = (1 :> [name |-> "", parent |-> 0, inode |-> 1])
                 @@ (2 :> [name |-> "a", parent |-> 1, inode |-> 2])
  /\ inodes = (1 :> RootInode) @@ (2 :> FileInode)
  /\ nextDir = 2
  /\ nextIno = 2
  /\ openFiles = <<>>
  /\ next = FirstFd
  /\ now = 0
  /\ atimeLevel = 1
  /\ idsByValue \in BOOLEAN
  /\ ops = [s \in Slots |-> Idle]

NextXattr ==
  \E s \in {1} :
    \/ \E nm \in XattrNames, v \in XattrValues : StartSetxattr(s, Owner, <<"a">>, nm, v)
    \/ \E p \in FlatPaths, nm \in XattrNames, len \in XattrLens :
         StartGetxattr(s, Owner, p, nm, len)
    \/ \E len \in XattrLens : StartListxattr(s, Owner, <<"a">>, len)
    \/ \E nm \in XattrNames : StartRemovexattr(s, Owner, <<"a">>, nm)
    \/ Return(s)
    \/ Resolve(s)
    \/ GetxattrFind(s)
    \/ ListxattrFind(s)
    \/ SetxattrUpdate(s)
    \/ RemovexattrFind(s) \/ RemovexattrUpdate(s)

SpecXattr == InitXattr /\ [][NextXattr]_vars

(* Attributes: the file /a, held open by its owner, is asked for its       *)
(* attributes, written and truncated by one caller that waits for each     *)
(* answer before its next call.                                            *)
InitAttr ==
  /\ directory = (1 :> [name |-> "", parent |-> 0, inode |-> 1])
                 @@ (2 :> [name |-> "a", parent |-> 1, inode |-> 2])
  /\ inodes = (1 :> RootInode) @@ (2 :> FileInode)
  /\ nextDir = 2
  /\ nextIno = 2
  /\ openFiles = (FirstFd :> [inode |-> 2, flags |-> 2])
  /\ next = FirstFd + 1
  /\ now = 0
  /\ atimeLevel = 1
  /\ idsByValue \in BOOLEAN
  /\ ops = [s \in Slots |-> Idle]

NextAttr ==
  \/ \E s \in Slots :
       \/ NoneRunning /\ \E p \in FlatPaths \cup {RootPath} : StartGetattr(s, Owner, p)
       \/ NoneRunning /\ Fgetattr(s, Owner, FirstFd)
       \/ NoneRunning /\ \E b \in Bufs : Write(s, Owner, FirstFd, b, 0)
       \/ NoneRunning /\ \E n \in {0, 1} : StartTruncate(s, Owner, <<"a">>, n)
       \/ NoneRunning /\ \E n \in {0, 1} : Ftruncate(s, Owner, FirstFd, n)
       \/ Return(s)
       \/ Resolve(s)
       \/ WriteFind(s) \/ WriteCallback(s) \/ WriteUpdate(s)
       \/ IgetattrFind(s) \/ IgetattrCount(s) \/ IgetattrFindData(s) \/ IgetattrStoreSize(s)
       \/ ItruncateFind(s) \/ ItruncateUpdate(s)

SpecAttr == InitAttr /\ [][NextAttr]_vars

(* truncate and ftruncate of the written file /a, with permission bits    *)
(* 0644, 0660 or 0446, by root, the owner, a member of its group and a     *)
(* stranger, to sizes within and beyond the limit                          *)
TruncModes == {FileMode, 33200, 33062}
TruncCallers == {0, Owner, 2, Stranger}
TruncSizes == {0, 1, MaxDocSize + 1}

InitTrunc ==
  /\ directory = (1 :> [name |-> "", parent |-> 0, inode |-> 1])
                 @@ (2 :> [name |-> "a", parent |-> 1, inode |-> 2])
  /\ \E m \in TruncModes :
       inodes = (1 :> RootInode)
                @@ (2 :> [FileInode EXCEPT !.mode = m, !.data = Some(BinOf(<<2, 1>>)),
                                           !.size = Some(2)])
  /\ nextDir = 2
  /\ nextIno = 2
  /\ openFiles = (FirstFd :> [inode |-> 2, flags |-> 2])
  /\ next = FirstFd + 1
  /\ now = 0
  /\ atimeLevel = 1
  /\ idsByValue \in BOOLEAN
  /\ ops = [s \in Slots |-> Idle]

NextTrunc ==
  \/ Tick
  \/ \E s \in {1} :
       \/ \E u \in TruncCallers, p \in FlatPaths, n \in TruncSizes : StartTruncate(s, u, p, n)
       \/ \E u \in TruncCallers, n \in TruncSizes : Ftruncate(s, u, FirstFd, n)
       \/ Return(s)
       \/ Resolve(s)
       \/ ItruncateFind(s) \/ ItruncateUpdate(s)

SpecTrunc == InitTrunc /\ [][NextTrunc]_vars

(* Creation: on a store that holds the root, mknod, mkdir and symlink of  *)
(* /a, /b and /a/b, with either insert failing or not, and readlink of     *)
(* what there is, one call at a time.  The targets are "a" and "\u00e9".    *)
CreatePaths == FlatPaths \cup {<<"a", "b">>}
Targets == {<<97>>, <<233>>}

InitCreate ==
  /\ directory = (1 :> [name |-> "", parent |-> 0, inode |-> 1])
  /\ inodes = (1 :> RootInode)
  /\ nextDir = 1
  /\ nextIno = 1
  /\ openFiles = <<>>
  /\ next = FirstFd
  /\ now = 0
  /\ atimeLevel = 1
  /\ idsByValue \in BOOLEAN
  /\ ops = [s \in Slots |-> Idle]

NextCreate ==
  \/ Tick
  \/ \E s \in {1} :
       \/ \E p \in CreatePaths : StartMknod(s, Owner, p, FileMode)
       \/ \E p \in CreatePaths : StartMkdir(s, Owner, p, DirMode)
       \/ \E p \in CreatePaths, t \in Targets : StartSymlink(s, Owner, t, p)
       \/ \E p \in FlatPaths \cup {RootPath} : StartReadlink(s, Owner, p)
       \/ Return(s)
       \/ Resolve(s)
       \/ ResolveFails(s)
       \/ InsertInode(s) \/ InsertInodeFails(s)
       \/ InsertEntry(s) \/ InsertEntryFails(s)
       \/ ReadlinkFind(s) \/ ReadlinkAtime(s)

SpecCreate == InitCreate /\ [][NextCreate]_vars

----------------------------------------------------------------------------
(* Properties *)

(* no handler is between its call and its callback *)
Quiescent == \A s \in Slots : ops[s].pc \in {"idle", "done"}

(* handler op has just called back with r *)
Answered(s, op, r) == ops[s].pc = "done" /\ ops[s].op = op /\ ops[s].ret = r

(* the entries a path may resolve to in the directory as it stands *)
RECURSIVE Walk(_, _)
Walk(todo, parents) ==
  IF todo = <<>> THEN parents
  ELSE Walk(Tail(todo), UNION {Lookup(Head(todo), d) : d \in parents})
Resolves(path) == Walk(SplitPath(path), {0}) # {}

(* bit k of x *)
Bit(x, k) == (x \div (2 ^ k)) % 2
(* every bit of mode is a bit of bits *)
Grants(bits, mode) == \A k \in 0..2 : Bit(mode, k) = 1 => Bit(bits, k) = 1

(* C1: under any interleaving of unlink, rmdir, link, rename, open and     *)
(* release, a step that deletes an inode record finds no directory entry   *)
(* and no open-file-table entry referencing that inode.                    *)
C1_DeletedOnlyUnreferenced ==
  [][\A i \in DOMAIN inodes :
       i \notin DOMAIN inodes' => (LinkCount(i) = 0 /\ HandlesOf(openFiles, i) = {})]_vars

(* C2: when unlink has removed the last entry of an inode that a handle    *)
(* is open on, the path no longer resolves and the inode record is still   *)
(* there; fgetattr through an open handle succeeds; and once no handler is *)
(* running, an inode without entries exists only while a handle is open on *)
(* it.                                                                     *)
C2_UnlinkWhileOpen ==
  /\ \A s \in Slots :
       (/\ Answered(s, "unlink", 0)
        /\ LinkCount(ops[s].target) = 0
        /\ HandlesOf(openFiles, ops[s].target) # {})
       => (~Resolves(ops[s].path) /\ ops[s].target \in DOMAIN inodes)
  /\ \A s \in Slots :
       (ops[s].pc = "done" /\ ops[s].op = "fgetattr" /\ ops[s].fd \in DOMAIN openFiles)
       => ops[s].ret = 0
  /\ Quiescent =>
       \A i \in DOMAIN inodes : LinkCount(i) = 0 => HandlesOf(openFiles, i) # {}

(* C3: once no handler is running, every inode record with both a stored   *)
(* size and a stored payload has a size equal to the payload's length.     *)
C3_SizeIsPayloadLength ==
  Quiescent =>
    \A i \in DOMAIN inodes :
      (Has(inodes[i].size) /\ Has(inodes[i].data))
      => Val(inodes[i].size) = Val(inodes[i].data).len

(* C4: once no handler is running, no two directory entries have the same  *)
(* name and parent, and a directory that is not empty has exactly one      *)
(* entry with a null parent.                                               *)
C4_UniqueNames ==
  Quiescent =>
    /\ \A d, e \in DOMAIN directory :
         (directory[d].name = directory[e].name /\ directory[d].parent = directory[e].parent)
         => d = e
    /\ directory # <<>> =>
         Cardinality({d \in DOMAIN directory : directory[d].parent = 0}) = 1

(* C5: no directory inode is referenced by more than one entry, and a link *)
(* whose source inode is a directory has answered EPERM.                   *)
C5_NoDirectoryHardlink ==
  /\ \A i \in DOMAIN inodes : IsDir(inodes[i].mode) => LinkCount(i) <= 1
  /\ \A s \in Slots :
       (/\ ops[s].pc = "done" /\ ops[s].op = "link"
        /\ ops[s].target \in DOMAIN inodes
        /\ IsDir(inodes[ops[s].target].mode))
       => ops[s].ret = EPERM
C5_Witness ==
  \E s \in Slots :
    /\ Answered(s, "link", EPERM)
    /\ ops[s].target \in DOMAIN inodes
    /\ IsDir(inodes[ops[s].target].mode)
    /\ LinkCount(ops[s].target) = 1

(* C6: access answers EINVAL to a mode outside 0..7, 0 to mode 0 and to    *)
(* uid 0, and otherwise 0 when every requested bit is among the owner bits *)
(* for the owner, else among the group bits for a member of the inode's    *)
(* group, else among the other bits, and EACCES when one is not.           *)
C6_DecisionTable ==
  \A s \in Slots :
    LET o == ops[s]
        m == o.doc.mode
        bits == IF o.uid = o.doc.uid THEN (m \div 64) % 8
                ELSE IF <<o.uid, o.doc.gid>> \in GroupMembers THEN (m \div 8) % 8
                ELSE m % 8
    IN (o.pc = "done" /\ o.op = "access" /\ o.ret # ENOENT)
       => o.ret = (IF o.mode \notin 0..7 THEN EINVAL
                   ELSE IF o.mode = 0 \/ o.uid = 0 THEN 0
                   ELSE IF Grants(bits, o.mode) THEN 0
                   ELSE EACCES)
(* a member of the group is refused what the owner and the others may do *)
C6_Witness ==
  \E s \in Slots :
    /\ Answered(s, "access", EACCES)
    /\ ops[s].uid = 2
    /\ (ops[s].doc.mode \div 64) % 8 = 7
    /\ ops[s].doc.mode % 8 = 7

(* C7: on an inode whose permission bits are 000, access answers EACCES to *)
(* every mode 1..7 of a caller who is not uid 0, not the owner and not in  *)
(* the inode's group; and it answers 0 to mode 0 whatever the bits.        *)
C7_DeniedWithoutBits ==
  \A s \in Slots :
    LET o == ops[s]
    IN (o.pc = "done" /\ o.op = "access" /\ o.ret # ENOENT)
       => /\ (/\ o.uid # 0
              /\ o.uid # o.doc.uid
              /\ <<o.uid, o.doc.gid>> \notin GroupMembers
              /\ o.doc.mode % 512 = 0
              /\ o.mode \in 1..7)
             => o.ret = EACCES
          /\ o.mode = 0 => o.ret = 0
C7_Witness ==
  \E s \in Slots :
    /\ Answered(s, "access", EACCES)
    /\ ops[s].uid = 3
    /\ ops[s].doc.mode % 512 = 0
    /\ ops[s].mode = 7
(* C7 as stated: any caller who is neither the owner nor in the group *)
C7_AsStated ==
  \A s \in Slots :
    LET o == ops[s]
    IN (/\ o.pc = "done" /\ o.op = "access" /\ o.ret # ENOENT
        /\ o.uid # o.doc.uid
        /\ <<o.uid, o.doc.gid>> \notin GroupMembers
        /\ o.doc.mode % 512 = 0
        /\ o.mode \in 1..7)
       => o.ret = EACCES

(* C8: when write has stored bytes at offset 0, the payload begins with    *)
(* those bytes and the stored size is the longer of the payload's length   *)
(* before and the number of bytes; read answers the bytes of the payload   *)
(* in the range it was asked for; getattr and fgetattr answer the stored   *)
(* size.                                                                   *)
C8_RoundTrip ==
  \A s \in Slots :
    LET o == ops[s]
        i == o.target
        before == IF Has(o.doc.data) THEN Val(o.doc.data).len ELSE 0
    IN /\ (o.pc = "done" /\ o.op = "write" /\ o.pos = 0 /\ o.ret >= 0)
          => /\ o.ret = Len(o.buf)
             /\ \A k \in 1..Len(o.buf) : ByteAt(Val(inodes[i].data), k - 1) = o.buf[k]
             /\ Val(inodes[i].data).len = Max(before, Len(o.buf))
             /\ inodes[i].size = Some(Max(before, Len(o.buf)))
       /\ (o.pc = "done" /\ o.op = "read" /\ o.ret >= 0 /\ Has(inodes[i].data))
          => /\ o.ret = Max(0, Min(o.size, Val(inodes[i].data).len - o.pos))
             /\ o.out = [k \in 1..o.ret |-> ByteAt(Val(inodes[i].data), o.pos + k - 1)]
       /\ (o.pc = "done" /\ o.op \in {"getattr", "fgetattr"} /\ o.ret = 0)
          => o.doc.size = inodes[i].size
(* one byte written over a payload of two: the size stays two *)
C8_Witness ==
  \E s \in Slots :
    /\ Answered(s, "write", 1)
    /\ ops[s].pos = 0
    /\ Has(ops[s].doc.data)
    /\ Val(ops[s].doc.data).len = 2
    /\ inodes[ops[s].target].size = Some(2)
(* C8 as stated: the size after a write at offset 0 is the number of bytes written *)
C8_AsStated ==
  \A s \in Slots :
    LET o == ops[s]
    IN (o.pc = "done" /\ o.op = "write" /\ o.pos = 0 /\ o.ret >= 0)
       => inodes[o.target].size = Some(Len(o.buf))

(* C9: getattr and fgetattr answer the number of entries that reference    *)
(* the inode as nlink; a link that succeeded leaves its inode with two     *)
(* entries or more; an unlink that leaves an entry leaves the inode.       *)
C9_NlinkCountsEntries ==
  \A s \in Slots :
    LET o == ops[s]
    IN /\ (o.pc = "done" /\ o.op \in {"getattr", "fgetattr"} /\ o.ret = 0)
          => o.doc.nlink = LinkCount(o.target)
       /\ Answered(s, "link", 0) => LinkCount(o.target) >= 2
       /\ (Answered(s, "unlink", 0) /\ LinkCount(o.target) > 0)
          => o.target \in DOMAIN inodes
C9_Witness ==
  \E s \in Slots :
    /\ Answered(s, "getattr", 0)
    /\ ops[s].doc.nlink = 2
    /\ LinkCount(ops[s].target) = 2

C11_TruncatePads ==
  \A s \in Slots :
    LET o == ops[s]
        old == IF Has(o.doc.data) THEN Val(o.doc.data) ELSE EmptyBin
        new == Val(inodes[o.target].data)
    IN (o.pc = "done" /\ o.op \in {"truncate", "ftruncate"} /\ o.ret = 0)
       => /\ new.len = o.size
          /\ \A p \in new.nz : p[1] < o.size /\ p \in old.nz
          /\ \A p \in old.nz : p[1] < o.size => p \in new.nz
          /\ \A k \in 1..Min(o.size, 2) :
               BinRead(new, 0, o.size)[k] = (IF k <= old.len THEN ByteAt(old, k - 1) ELSE 0)
          /\ inodes[o.target].mtime = o.time
          /\ inodes[o.target].ctime = o.time
          /\ o.time <= now
(* a payload of two bytes cut to one, after the clock has moved *)
C11_Witness ==
  \E s \in Slots :
    /\ Answered(s, "truncate", 0)
    /\ ops[s].size = 1
    /\ Has(ops[s].doc.data)
    /\ Val(ops[s].doc.data) = BinOf(<<2, 1>>)
    /\ Val(inodes[ops[s].target].data) = BinOf(<<2>>)
    /\ inodes[ops[s].target].mtime = 1

(* C12: a write through a handle opened read-only and a read through a     *)
(* handle opened write-only answer EBADF at once, and every inode record   *)
(* (payload, size, timestamps) is as it was.                               *)
C12_WrongModeEbadf ==
  [][\A s \in Slots :
       LET o == ops[s]
           n == ops'[s]
       IN (/\ o.pc = "idle" /\ n.pc # "idle"
           /\ n.fd \in DOMAIN openFiles
           /\ \/ n.op = "write" /\ openFiles[n.fd].flags = 0
              \/ n.op = "read" /\ openFiles[n.fd].flags = 1)
          => (n.pc = "done" /\ n.ret = EBADF /\ inodes' = inodes)]_vars
(* a write was refused on a read-only handle of a file that has a payload *)
C12_Witness ==
  \E s \in Slots :
    /\ Answered(s, "write", EBADF)
    /\ ops[s].fd \in DOMAIN openFiles
    /\ openFiles[ops[s].fd].flags = 0
    /\ Has(inodes[openFiles[ops[s].fd].inode].data)

AtimeOps == {"read", "readdir", "readlink"}
AtLookup(o) ==
  /\ o.op \in AtimeOps /\ o.pc \in {"rd_find", "rdd_find", "rl_find"}
  /\ o.target \in DOMAIN inodes
  /\ o.op = "read" => FileType(inodes[o.target].mode) # S_IFDIR
  /\ o.op = "readlink" => FileType(inodes[o.target].mode) = S_IFLNK
AtUpdate(o) == o.op \in AtimeOps /\ o.pc \in {"rd_atime", "rdd_atime", "rl_atime"}

C15_SizeStoredOnce ==
  [][/\ \A i \in DOMAIN inodes :
          Has(inodes[i].size)
          => /\ i \in DOMAIN inodes' /\ Has(inodes'[i].size)
             /\ inodes'[i].size # inodes[i].size
                => \E s \in Slots : /\ ops[s].op = "write" /\ ops[s].pc = "wr_upd"
                                    /\ ops[s].target = i /\ ops'[s].pc = "done"
     /\ \A s \in Slots :
          LET o == ops[s]
              n == ops'[s]
          IN /\ (o.op \in {"getattr", "fgetattr"} /\ o.pc = "ga_find" /\ n # o
                 /\ o.target \in DOMAIN inodes /\ Has(inodes[o.target].size))
                => (n.pc = "ga_cnt" /\ n.doc.size = inodes[o.target].size)
             /\ (o.op \in {"getattr", "fgetattr"} /\ o.pc = "ga_cnt" /\ n # o
                 /\ Has(o.doc.size))
                => (n.pc = "done" /\ n.ret = 0 /\ n.doc.size = o.doc.size
                    /\ inodes' = inodes)
             /\ (o.op \in {"getattr", "fgetattr"} /\ o.pc # "done" /\ n.pc = "done"
                 /\ n.ret = 0)
                => inodes'[n.target].size = n.doc.size
             /\ (o.op \in {"getattr", "fgetattr"} /\ n # o /\ inodes' # inodes)
                => (/\ o.pc = "ga_upd" /\ ~Has(inodes[o.target].size)
                    /\ inodes' = [inodes EXCEPT ![o.target].size = o.doc.size])]_vars
(* two calls in a row have answered the same size for a file that has a   *)
(* payload, and that size is the size stored                               *)
C15_Witness ==
  \E s \in Slots : \E t \in Slots \ {s} :
    /\ Answered(s, "getattr", 0) /\ Answered(t, "fgetattr", 0)
    /\ ops[s].target = ops[t].target
    /\ ops[s].doc.size = ops[t].doc.size
    /\ inodes[ops[s].target].size = ops[s].doc.size
    /\ Has(inodes[ops[s].target].data)

(* C16: when readdir answers, it answers 0 with '.' first, '..' second and *)
(* then one name for each entry whose parent is the entry its path         *)
(* resolved to, each name as often as entries bear it, and nothing else.   *)
C16_ReaddirLists ==
  [][\A s \in Slots :
       LET o == ops[s]
           n == ops'[s]
           kids == {c \in DOMAIN directory : directory[c].parent = o.saved}
       IN (o.op = "readdir" /\ o.pc \in {"rdd_find", "rdd_list"} /\ n.pc = "done")
          => /\ n.ret = 0
             /\ o.saved \in Walk(SplitPath(o.path), {0})
             /\ Len(n.out) = 2 + Cardinality(kids)
             /\ n.out[1] = "." /\ n.out[2] = ".."
             /\ \A name \in Names \cup {""} :
                  Cardinality({k \in 3..Len(n.out) : n.out[k] = name})
                    = Cardinality({c \in kids : directory[c].name = name})]_vars
(* readdir('/a') has answered ['.', '..', 'b'] *)
C16_Witness ==
  \E s \in Slots :
    /\ Answered(s, "readdir", 0)
    /\ ops[s].path = <<"a">>
    /\ ops[s].out = <<".", "..", "b">>

(* the entry k steps up the parent chain of entry d *)
RECURSIVE Up(_, _)
Up(d, k) == IF k = 0 \/ d \notin DOMAIN directory THEN d ELSE Up(directory[d].parent, k - 1)
(* the root's entry: the empty name under the null parent *)
IsRootEntry(d) ==
  d \in DOMAIN directory /\ directory[d].name = "" /\ directory[d].parent = 0

(* C17: when the lookup of the last component of a path P succeeds, the    *)
(* entry found bears the names of P up its parent chain and reaches the    *)
(* root's entry (empty name, null parent) in exactly as many steps as P    *)
(* has components, none for "/"; a lookup that finds no entry answers      *)
(* ENOENT unless the store failed, a failed lookup answers EIO, and        *)
(* neither goes on to the handler.                                         *)
C17_ResolveDepth ==
  [][\A s \in Slots :
       LET o == ops[s]
           n == ops'[s]
           P == o.path
           d == n.pdoc
       IN (o.op \in {"getattr", "readdir", "unlink", "rmdir"} /\ o.pc = "resolve" /\ n # o)
          => /\ (n.pc # "resolve" /\ n.pc # "done")
                => /\ Len(o.todo) = 1
                   /\ IsRootEntry(Up(d, Len(P)))
                   /\ \A k \in 0..(Len(P) - 1) :
                        /\ ~IsRootEntry(Up(d, k))
                        /\ directory[Up(d, k)].name = P[Len(P) - k]
                   /\ n.pino = directory[d].inode
             /\ n.pc = "done" => n.ret \in {ENOENT, EIO}
             /\ (n.pc = "done" /\ n.ret = ENOENT)
                => Lookup(Head(o.todo), o.pdoc) = {}
             /\ Lookup(Head(o.todo), o.pdoc) = {} => n.pc = "done"]_vars
(* a path of two components has resolved to an entry two steps below the root *)
C17_Witness ==
  \E s \in Slots :
    /\ ops[s].op = "getattr" /\ ops[s].pc = "ga_find"
    /\ Len(ops[s].path) = 2
    /\ ops[s].saved \in DOMAIN directory
    /\ IsRootEntry(Up(ops[s].saved, 2))
    /\ ~IsRootEntry(Up(ops[s].saved, 1))

(* C18: the step of rmdir that removes a directory's entry finds no entry *)
(* with that entry as its parent, whatever else is in flight; and an rmdir *)
(* that counts a child answers ENOTEMPTY and removes nothing.              *)
C18_RmdirOnlyEmpty ==
  [][\A s \in Slots :
       LET o == ops[s]
           n == ops'[s]
       IN /\ (o.op = "rmdir" /\ o.pc = "ul_rm" /\ n # o /\ directory' # directory)
             => ChildCount(o.saved) = 0
          /\ (o.op = "rmdir" /\ o.pc = "rd_cnt" /\ n # o /\ ChildCount(o.pdoc) > 0)
             => (n.pc = "done" /\ n.ret = ENOTEMPTY
                 /\ directory' = directory /\ inodes' = inodes)]_vars

(* C19: a chmod by a caller who is neither uid 0 nor the owner answers    *)
(* EPERM and changes nothing; a chmod that is let through stores the low   *)
(* twelve bits of the requested mode under the file-type bits the inode    *)
(* had, sets ctime to the time of the call, and changes nothing else.      *)
C19_Chmod ==
  [][\A s \in Slots :
       LET o == ops[s]
           n == ops'[s]
           i == o.target
       IN /\ (o.op = "chmod" /\ o.pc = "cm_find" /\ n # o /\ i \in DOMAIN inodes)
             => IF o.uid # 0 /\ o.uid # inodes[i].uid
                  THEN n.pc = "done" /\ n.ret = EPERM /\ inodes' = inodes
                  ELSE n.pc = "cm_upd" /\ n.time = now /\ inodes' = inodes
          /\ (o.op = "chmod" /\ o.pc = "cm_upd" /\ n # o)
             => /\ n.pc = "done" /\ n.ret = 0
                /\ o.uid = 0 \/ o.uid = inodes[i].uid
                /\ inodes'[i].mode % 4096 = o.mode % 4096
                /\ inodes'[i].mode \div 4096 = inodes[i].mode \div 4096
                /\ inodes'[i].ctime = o.time
                /\ inodes' = [inodes EXCEPT ![i].mode = inodes'[i].mode,
                                            ![i].ctime = inodes'[i].ctime]
          /\ (o.op = "chmod" /\ n # o) => directory' = directory]_vars
(* the owner's chmod to a mode with directory type bits has left a regular *)
(* file with the permission bits asked for and a new ctime                 *)
C19_Witness ==
  \E s \in Slots :
    /\ Answered(s, "chmod", 0)
    /\ ops[s].uid = Owner
    /\ ops[s].mode = S_IFDIR + 448
    /\ inodes[ops[s].target].mode = (FileMode \div 4096) * 4096 + 448
    /\ inodes[ops[s].target].ctime = 1

(* C20: a chown answers EPERM and changes nothing unless the caller is    *)
(* uid 0, or owns the inode, asks for no uid but its own and for no gid    *)
(* but one of a group it is a member of; a chown that is let through       *)
(* stores the uid and the gid asked for, leaves alone the one given as -1, *)
(* sets ctime to the time of the call, and changes nothing else.           *)
C20_Chown ==
  [][\A s \in Slots :
       LET o == ops[s]
           n == ops'[s]
           i == o.target
           allowed == \/ o.uid = 0
                      \/ /\ o.uid = inodes[i].uid
                         /\ o.reqUid = -1 \/ o.reqUid = o.uid
                         /\ o.reqGid = -1 \/ <<o.uid, o.reqGid>> \in GroupMembers
       IN /\ (o.op = "chown" /\ o.pc = "co_find" /\ n # o /\ i \in DOMAIN inodes)
             => IF allowed
                  THEN n.pc = "co_upd" /\ n.time = now /\ inodes' = inodes
                  ELSE n.pc = "done" /\ n.ret = EPERM /\ inodes' = inodes
          /\ (o.op = "chown" /\ o.pc = "co_upd" /\ n # o)
             => /\ n.pc = "done" /\ n.ret = 0
                /\ allowed
                /\ inodes'[i].uid = (IF o.reqUid = -1 THEN inodes[i].uid ELSE o.reqUid)
                /\ inodes'[i].gid = (IF o.reqGid = -1 THEN inodes[i].gid ELSE o.reqGid)
                /\ inodes'[i].ctime = o.time
                /\ inodes' = [inodes EXCEPT ![i].uid = inodes'[i].uid,
                                            ![i].gid = inodes'[i].gid,
                                            ![i].ctime = inodes'[i].ctime]
          /\ (o.op = "chown" /\ n # o) => directory' = directory]_vars
(* user 2, made owner by the superuser, has given the file to group 1, of  *)
(* which it is a member, with -1 for the uid                               *)
C20_Witness ==
  \E s \in Slots :
    /\ Answered(s, "chown", 0)
    /\ ops[s].uid = 2 /\ ops[s].reqUid = -1 /\ ops[s].reqGid = 1
    /\ inodes[ops[s].target].uid = 2
    /\ inodes[ops[s].target].gid = 1
    /\ inodes[ops[s].target].ctime = 1

----------------------------------------------------------------------------
(* the three answers to a destination of o.size bytes, for a value or list *)
(* of the given bytes                                                      *)
SizedAnswer(o, bytes) ==
  IF o.size = 0 THEN o.ret = Len(bytes) /\ o.out = <<>>
  ELSE IF o.size < Len(bytes) THEN o.ret = ERANGE /\ o.out = <<>>
  ELSE o.ret = Len(bytes) /\ o.out = bytes

XattrAnswered(s, op) ==
  /\ ops[s].pc = "done"
  /\ ops[s].op = op
  /\ ops[s].ret \notin {ENOENT, ENODATA}

(* getxattr of an attribute the inode has answers for the attribute's bytes *)
GetxattrSized ==
  \A s \in Slots :
    (XattrAnswered(s, "getxattr") /\ b64enc(ops[s].name) \in XattrKeys(inodes[ops[s].target]))
      => SizedAnswer(ops[s], Val(inodes[ops[s].target].xattr)[b64enc(ops[s].name)])

(* listxattr of an inode with attributes answers for the bytes of the      *)
(* NUL-terminated list of their names                                      *)
ListxattrSized ==
  \A s \in Slots :
    (XattrAnswered(s, "listxattr") /\ XattrKeys(inodes[ops[s].target]) # {})
      => SizedAnswer(ops[s], Utf8(Joined(KeyList(XattrKeys(inodes[ops[s].target])))))

(* C21: getxattr and listxattr answer the required length to a zero-length *)
(* destination without copying, ERANGE to a non-zero destination shorter   *)
(* than the required length, and otherwise copy the value, or the          *)
(* NUL-terminated list of names, and answer its length.                    *)
C21_AsStated == GetxattrSized /\ ListxattrSized

(* the step of slot s from position pc to its answer, on an existing inode *)
XattrStep(s, pc) ==
  /\ ops[s].pc = pc
  /\ ops'[s].pc = "done"
  /\ ops[s].target \in DOMAIN inodes

(* every attribute of the inode but the named one is as it was *)
OthersKept(t, key) ==
  /\ XattrKeys(inodes'[t]) \ {key} = XattrKeys(inodes[t]) \ {key}
  /\ \A k \in XattrKeys(inodes[t]) \ {key} : Val(inodes'[t].xattr)[k] = Val(inodes[t].xattr)[k]
  /\ \A f \in {"mode", "uid", "gid", "size", "data", "ctime", "mtime", "atime", "nlink"} :
       inodes'[t][f] = inodes[t][f]
  /\ \A i \in DOMAIN inodes \ {t} : inodes'[i] = inodes[i]
  /\ DOMAIN inodes' = DOMAIN inodes

(* how often a name stands in a NUL-terminated list of names *)
RECURSIVE Occurs(_, _, _)
Occurs(name, list, word) ==
  IF list = <<>> THEN 0
  ELSE IF Head(list) = 0
    THEN (IF word = name THEN 1 ELSE 0) + Occurs(name, Tail(list), <<>>)
  ELSE Occurs(name, Tail(list), Append(word, Head(list)))

(* C22: setxattr stores the value under the name and keeps every other     *)
(* attribute; getxattr answers the stored value, listxattr lists each      *)
(* stored name once and as it was given; removexattr takes the name away   *)
(* and keeps every other attribute; getxattr and removexattr of a name the *)
(* inode has not answer ENODATA.                                           *)
C22_XattrRoundTrip ==
  [][\A s \in Slots :
       LET o == ops[s]
           t == o.target
           key == b64enc(o.name)
       IN /\ XattrStep(s, "sx_upd") =>
               /\ ops'[s].ret = 0
               /\ key \in XattrKeys(inodes'[t])
               /\ Val(inodes'[t].xattr)[key] = o.buf
               /\ OthersKept(t, key)
          /\ XattrStep(s, "rx_upd") =>
               /\ ops'[s].ret = 0
               /\ key \notin XattrKeys(inodes'[t])
               /\ OthersKept(t, key)
          /\ XattrStep(s, "gx_find") =>
               IF key \in XattrKeys(inodes[t])
                 THEN o.size >= Len(Val(inodes[t].xattr)[key]) /\ o.size > 0
                        => /\ ops'[s].out = Val(inodes[t].xattr)[key]
                           /\ ops'[s].ret = Len(Val(inodes[t].xattr)[key])
                 ELSE ops'[s].ret = ENODATA
          /\ XattrStep(s, "rx_find") => (key \notin XattrKeys(inodes[t]) /\ ops'[s].ret = ENODATA)
          /\ (XattrStep(s, "lx_find") /\ o.size = 9) =>
               \A name \in XattrNames :
                 Occurs(name, Utf8Decode(ops'[s].out), <<>>)
                   = IF b64enc(name) \in XattrKeys(inodes[t]) THEN 1 ELSE 0
    ]_vars

(* getxattr has answered a two-character name's value on an inode that    *)
(* bears all three names                                                   *)
C22_Witness ==
  \E s \in Slots :
    /\ ops[s].pc = "done"
    /\ ops[s].op = "getxattr"
    /\ ops[s].name = <<233>>
    /\ ops[s].out = <<2, 1>>
    /\ Cardinality(XattrKeys(inodes[ops[s].target])) = 3

----------------------------------------------------------------------------
HandleOps == {"read", "write", "fgetattr", "ftruncate", "release"}

(* slot s takes a call on a handle *)
HandleCall(s) ==
  /\ ops[s].pc = "idle"
  /\ ops'[s].pc # "idle"
  /\ ops'[s].op \in HandleOps

(* C23: read, write, fgetattr, ftruncate and release on a handle that is   *)
(* not in the open-file table answer EBADF at once and change neither the  *)
(* store nor the table; the table holds only handles that open handed out; *)
(* release takes its handle out of the table, and a handle enters the      *)
(* table only as the new handle of an open, so a released handle stays     *)
(* out.                                                                    *)
C23_UnknownHandleEbadf ==
  /\ [](DOMAIN openFiles \subseteq FirstFd .. (next - 1))
  /\ [][/\ \A s \in Slots :
            /\ (HandleCall(s) /\ ops'[s].fd \notin DOMAIN openFiles) =>
                 /\ ops'[s].pc = "done"
                 /\ ops'[s].ret = EBADF
                 /\ UNCHANGED <<directory, inodes, openFiles, next>>
            /\ (HandleCall(s) /\ ops'[s].op = "release" /\ ops'[s].fd \in DOMAIN openFiles) =>
                 DOMAIN openFiles' = DOMAIN openFiles \ {ops'[s].fd}
         /\ \A fd \in DOMAIN openFiles' \ DOMAIN openFiles : fd = next /\ next' > next
      ]_vars

(* a second release of a handle has answered EBADF: the handle was handed *)
(* out, is in the table no more, and the call on it was refused            *)
C23_Witness ==
  \E s \in Slots :
    /\ ops[s].pc = "done"
    /\ ops[s].op = "release"
    /\ ops[s].ret = EBADF
    /\ ops[s].fd \in FirstFd .. (next - 1)
    /\ ops[s].fd \notin DOMAIN openFiles

----------------------------------------------------------------------------
(* slot s holds the answer of an open that handed out a handle *)
Opened(s) == ops[s].pc = "done" /\ ops[s].op = "open" /\ ops[s].ret = 0

(* C24: the counter starts at 10 and never goes down; an open that hands   *)
(* out a handle hands out the counter's value, which is in no use, and     *)
(* leaves the counter larger, also after releases; every handle handed out *)
(* is at least 10 and below the counter, and two answers of open held at   *)
(* the same time bear different handles.                                   *)
C24_HandlesIncrease ==
  /\ next = FirstFd
  /\ [](\A s \in Slots : Opened(s) =>
          /\ ops[s].out[1] \in FirstFd .. (next - 1)
          /\ \A t \in Slots \ {s} : Opened(t) => ops[t].out[1] # ops[s].out[1])
  /\ [][/\ next' >= next
        /\ \A s \in Slots :
             (ops[s].pc = "op_add" /\ ops'[s].pc = "done") =>
               /\ ops'[s].out = <<next>>
               /\ next' > next
               /\ next \notin DOMAIN openFiles
               /\ \A t \in Slots : Opened(t) => ops[t].out[1] < next
     ]_vars

(* two opens that were in flight together have both answered, the one     *)
(* that began first with the later handle                                  *)
C24_Witness ==
  /\ Opened(1) /\ Opened(2)
  /\ ops[1].out = <<FirstFd + 1>>
  /\ ops[2].out = <<FirstFd>>

----------------------------------------------------------------------------
(* the entries that resolve "/" *)
RootEntries == Lookup("", 0)

(* C25: an init whose lookup of the root finds nothing inserts one inode   *)
(* of directory type and then one entry of empty name and null parent that *)
(* references it, and answers 0; an init whose lookup finds the root       *)
(* answers 0 and inserts and modifies nothing; no other step of init       *)
(* touches the store.                                                      *)
C25_InitOnce ==
  [][\A s \in Slots :
       LET o == ops[s]
           n == ops'[s]
       IN (o.op = "init" /\ n # o) =>
            /\ o.pc = "resolve" =>
                 /\ n.pc = IF RootEntries = {} THEN "mk_ino" ELSE "in_done"
                 /\ UNCHANGED <<directory, inodes>>
            /\ o.pc = "mk_ino" =>
                 /\ n.pc = "mk_dir"
                 /\ n.target \notin DOMAIN inodes
                 /\ n.target \in DOMAIN inodes'
                 /\ inodes' = (n.target :> inodes'[n.target]) @@ inodes
                 /\ FileType(inodes'[n.target].mode) = S_IFDIR
                 /\ UNCHANGED directory
            /\ o.pc = "mk_dir" =>
                 /\ n.pc = "done" /\ n.ret = 0
                 /\ \E d \in DOMAIN directory' \ DOMAIN directory :
                      directory' = (d :> [name |-> "", parent |-> 0, inode |-> o.target])
                                   @@ directory
                 /\ o.target \in DOMAIN inodes
                 /\ UNCHANGED inodes
            /\ o.pc = "in_done" =>
                 /\ n.pc = "done" /\ n.ret = 0
                 /\ UNCHANGED <<directory, inodes>>
            /\ o.pc \in {"resolve", "mk_ino", "mk_dir", "in_done", "done"}
    ]_vars

(* an init that found the root another init had created has answered 0     *)
(* without an insert of its own                                            *)
C25_Witness ==
  \E s \in Slots :
    /\ ops[s].pc = "done"
    /\ ops[s].op = "init"
    /\ ops[s].ret = 0
    /\ ops[s].target = 0
    /\ Cardinality(RootEntries) = 1
    /\ \A d \in RootEntries : directory[d].inode \in DOMAIN inodes

----------------------------------------------------------------------------
(* C26: an open or opendir answers an error and registers no handle when   *)
(* its path does not resolve (ENOENT), when the inode is missing (ENOENT), *)
(* when the access mode is 3 (EINVAL, for every caller, uid 0 too), when   *)
(* the caller lacks the permission asked for (EACCES), and when            *)
(* O_DIRECTORY is set on an inode that is no directory (ENOTDIR); no step  *)
(* of open but the registration of a successful one changes the open-file  *)
(* table or the counter.                                                   *)
C26_OpenFailsClean ==
  [][\A s \in Slots :
       LET o == ops[s]
           n == ops'[s]
       IN (o.op = "open" /\ n # o) =>
            /\ o.pc # "op_add" => UNCHANGED <<openFiles, next>>
            /\ (n.pc = "done" /\ n.ret # 0) => UNCHANGED <<openFiles, next>>
            /\ (o.pc = "resolve" /\ Lookup(Head(o.todo), o.pdoc) = {})
                 => (n.pc = "done" /\ n.ret = ENOENT)
            /\ o.pc = "op_find" =>
                 IF o.pino \notin DOMAIN inodes THEN n.pc = "done" /\ n.ret = ENOENT
                 ELSE IF o.flags % 4 = 3 THEN n.pc = "done" /\ n.ret = EINVAL
                 ELSE IF chkaccess(inodes[o.pino], <<4, 2, 6>>[(o.flags % 4) + 1], o.uid) # 0
                   THEN n.pc = "done" /\ n.ret = EACCES
                 ELSE IF o.flags >= O_DIRECTORY /\ ~IsDir(inodes[o.pino].mode)
                   THEN n.pc = "done" /\ n.ret = ENOTDIR
                 ELSE n.pc = "op_add"
    ]_vars

(* uid 0 has asked for access mode 3 on a file another caller holds open: *)
(* EINVAL, and the table holds the one handle                              *)
C26_Witness ==
  \E s \in Slots :
    /\ ops[s].pc = "done"
    /\ ops[s].op = "open"
    /\ ops[s].uid = 0
    /\ ops[s].flags = 3
    /\ ops[s].ret = EINVAL
    /\ DOMAIN openFiles = {FirstFd}
    /\ next = FirstFd + 1

----------------------------------------------------------------------------
(* C27: no handler ever stops in an exception nobody catches: every call   *)
(* in flight is at a step that leads to its callback.                      *)
C27_AsStated == \A s \in Slots : ops[s].pc # "thrown"

----------------------------------------------------------------------------
(* the write bit of the class the caller falls in, or uid 0 *)
MayWrite(doc, uid) ==
  \/ uid = 0
  \/ LET bits == IF uid = doc.uid THEN (doc.mode \div 64) % 8
                 ELSE IF useringroup(uid, doc.gid) THEN (doc.mode \div 8) % 8
                 ELSE doc.mode % 8
     IN (bits \div 2) % 2 = 1

TruncateOps == {"truncate", "ftruncate"}

(* C28: truncate and ftruncate answer EACCES to a caller without write     *)
(* permission, whatever the size asked for, and EFBIG only to a caller     *)
(* with it; the lookup step changes no inode, and a step of theirs that    *)
(* changes an inode is taken for a caller with write permission only.      *)
C28_TruncateNeedsWrite ==
  [][\A s \in Slots :
       LET o == ops[s]
           n == ops'[s]
       IN (o.op \in TruncateOps /\ n # o) =>
            /\ (o.pc = "tr_find" /\ o.target \in DOMAIN inodes) =>
                 /\ UNCHANGED inodes
                 /\ IF ~MayWrite(inodes[o.target], o.uid)
                      THEN n.pc = "done" /\ n.ret = EACCES
                    ELSE IF o.size > MaxDocSize THEN n.pc = "done" /\ n.ret = EFBIG
                    ELSE n.pc = "tr_upd"
            /\ inodes' # inodes =>
                 /\ o.pc = "tr_upd"
                 /\ MayWrite(inodes[o.target], o.uid)
                 /\ n.ret = 0
            /\ (n.pc = "done" /\ n.ret # 0) => UNCHANGED inodes
    ]_vars

(* a stranger's ftruncate beyond the limit of a file of mode 0644 has     *)
(* answered EACCES, and the payload is as it was                           *)
C28_Witness ==
  \E s \in Slots :
    /\ Answered(s, "ftruncate", EACCES)
    /\ ops[s].uid = Stranger
    /\ ops[s].size > MaxDocSize
    /\ inodes[2].mode = FileMode
    /\ inodes[2].data = Some(BinOf(<<2, 1>>))

----------------------------------------------------------------------------
CreateOps == {"mknod", "mkdir", "symlink"}

(* the entries that reference an inode, in the next state *)
ReferencesAfter(i) == {d \in DOMAIN directory' : directory'[d].inode = i}

(* C29: mknod, mkdir and symlink resolve the parent, then insert the       *)
(* inode, then the entry.  A parent that does not resolve ends the call    *)
(* with the resolution's error and nothing inserted; a failed insert of    *)
(* the inode ends it with EIO and nothing inserted; a failed insert of the *)
(* entry ends it with EIO, the inode inserted and referenced by no entry;  *)
(* otherwise the entry names the new inode under the resolved parent.      *)
C29_InodeThenEntry ==
  [][\A s \in Slots :
       LET o == ops[s]
           n == ops'[s]
       IN (o.op \in CreateOps /\ n # o) =>
            /\ o.pc \in {"resolve", "mk_ino", "mk_dir", "done"}
            /\ o.pc = "resolve" =>
                 /\ UNCHANGED <<directory, inodes>>
                 /\ n.pc \in {"resolve", "mk_ino", "done"}
                 /\ n.pc = "done" => n.ret \in {ENOENT, EIO}
                 /\ Lookup(Head(o.todo), o.pdoc) = {} => (n.pc = "done" /\ n.ret \in {ENOENT, EIO})
            /\ o.pc = "mk_ino" =>
                 \/ /\ n.pc = "mk_dir"
                    /\ n.target \notin DOMAIN inodes
                    /\ n.target \in DOMAIN inodes'
                    /\ inodes' = (n.target :> inodes'[n.target]) @@ inodes
                    /\ inodes'[n.target].mode = o.mode
                    /\ UNCHANGED directory
                 \/ /\ n.pc = "done" /\ n.ret = EIO
                    /\ UNCHANGED <<directory, inodes>>
            /\ o.pc = "mk_dir" =>
                 \/ /\ n.pc = "done" /\ n.ret = 0
                    /\ \E d \in DOMAIN directory' \ DOMAIN directory :
                         directory' = (d :> [name |-> Basename(o.path), parent |-> o.pdoc,
                                             inode |-> o.target]) @@ directory
                    /\ o.target \in DOMAIN inodes
                    /\ UNCHANGED inodes
                 \/ /\ n.pc = "done" /\ n.ret = EIO
                    /\ UNCHANGED <<directory, inodes>>
                    /\ o.target \in DOMAIN inodes
                    /\ ReferencesAfter(o.target) = {}
    ]_vars

(* a symlink whose entry the store refused has answered EIO: its inode is *)
(* in the store and no entry references it                                 *)
C29_Witness ==
  \E s \in Slots :
    /\ Answered(s, "symlink", EIO)
    /\ ops[s].target \in DOMAIN inodes
    /\ inodes[ops[s].target].mode = SymlinkMode
    /\ LinkCount(ops[s].target) = 0

----------------------------------------------------------------------------
(* C30: symlink inserts an inode of mode 0120777 that holds its target;    *)
(* a readlink that answers 0 on an inode holding a target answers exactly  *)
(* that target; readlink on an inode that is no symlink answers EINVAL.    *)
C30_AsStated ==
  [][\A s \in Slots :
       LET o == ops[s]
           n == ops'[s]
       IN /\ (o.op = "symlink" /\ o.pc = "mk_ino" /\ n.pc = "mk_dir") =>
               /\ n.target \in DOMAIN inodes'
               /\ inodes'[n.target].mode = SymlinkMode
               /\ inodes'[n.target].data = Some(BinOf(Utf8(o.name)))
          /\ (o.op = "readlink" /\ o.pc \in {"rl_find", "rl_atime"} /\ n.pc = "done"
                                /\ n.ret = 0) =>
               \A t \in Targets :
                 inodes[o.target].data = Some(BinOf(Utf8(t))) => n.out = t
          /\ (o.op = "readlink" /\ o.pc = "rl_find" /\ n # o /\ o.target \in DOMAIN inodes
                                /\ FileType(inodes[o.target].mode) # S_IFLNK) =>
               (n.pc = "done" /\ n.ret = EINVAL)
    ]_vars

----------------------------------------------------------------------------
(* the non-zero bytes of a payload outside the positions from, .., to - 1 *)
Outside(bin, from, to) == {p \in bin.nz : p[1] < from \/ p[1] >= to}

----------------------------------------------------------------------------
(* the step in which the rename of slot s updates the entry it resolved *)
RenameStep(s) ==
  /\ ops[s].pc = "rn_upd"
  /\ ops'[s].pc = "done"
  /\ ops'[s].ret = 0
  /\ ops[s].saved \in DOMAIN directory

(* rename's update changes the name and the parent of the entry it         *)
(* resolved and nothing else: no entry comes or goes, the entry keeps its  *)
(* id and its inode, every other entry and every inode is as it was.       *)
RenameFrame ==
  [][\A s \in Slots :
       RenameStep(s) =>
         /\ DOMAIN directory' = DOMAIN directory
         /\ directory'[ops[s].saved].inode = directory[ops[s].saved].inode
         /\ \A d \in DOMAIN directory \ {ops[s].saved} : directory'[d] = directory[d]
         /\ UNCHANGED inodes
    ]_vars

(* the entries a path may resolve to in the directory of the next state *)
RECURSIVE WalkAfter(_, _)
WalkAfter(todo, parents) ==
  IF todo = <<>> THEN parents
  ELSE WalkAfter(Tail(todo),
                 UNION {{e \in DOMAIN directory' : /\ directory'[e].name = Head(todo)
                                                   /\ directory'[e].parent = d} : d \in parents})

(* C32: a successful rename changes only the name and the parent of the    *)
(* source entry, and when its update is done the source path (where it     *)
(* differs from the destination) resolves no more and the destination      *)
(* resolves to that entry and no other.                                    *)
C32_AsStated ==
  /\ RenameFrame
  /\ [][\A s \in Slots :
          (RenameStep(s) /\ ops[s].path # ops[s].path2) =>
            /\ WalkAfter(SplitPath(ops[s].path), {0}) = {}
            /\ WalkAfter(SplitPath(ops[s].path2), {0}) = {ops[s].saved}
       ]_vars

----------------------------------------------------------------------------
(* the entries that reference an inode the store does not hold *)
Dangling == {d \in DOMAIN directory : directory[d].inode \notin DOMAIN inodes}

(* at most one call is between its first step and its answer *)
OneAtATime == Cardinality({s \in Slots : ops[s].pc \notin {"idle", "done"}}) <= 1

(* C33: as long as calls do not overlap, every entry references an inode   *)
(* that exists; an entry that references a missing inode (the witness)     *)
(* comes about only in a run in which two calls were in flight together.   *)
C33_DanglingNeedsOverlap == ([]OneAtATime) => [](Dangling = {})

(* link has answered 0 and its new entry references an inode that an       *)
(* unlink or release in flight with it has deleted                         *)
C33_Witness ==
  \E s \in Slots :
    /\ Answered(s, "link", 0)
    /\ ops[s].target \notin DOMAIN inodes
    /\ \E d \in Dangling : directory[d].inode = ops[s].target

----------------------------------------------------------------------------
(* the chain of parents of entry d ends at the root's null parent, in the  *)
(* directory dir                                                          *)
RECURSIVE Rooted(_, _, _)
Rooted(dir, d, fuel) ==
  IF d = 0 THEN TRUE
  ELSE IF fuel = 0 \/ d \notin DOMAIN dir THEN FALSE
  ELSE Rooted(dir, dir[d].parent, fuel - 1)

AllRooted(dir) == \A d \in DOMAIN dir : Rooted(dir, d, Cardinality(DOMAIN dir))

(* C34: a rename that finds every entry's chain of parents ending at the   *)
(* root leaves it so: no rename makes the parent relation cyclic or cuts   *)
(* an entry off the root.                                                  *)
C34_AsStated ==
  [][\A s \in Slots : (RenameStep(s) /\ AllRooted(directory)) => AllRooted(directory')]_vars

----------------------------------------------------------------------------
(* entry d lies under an entry that exists and whose inode is a directory  *)
UnderDirectory(d) ==
  LET p == directory[d].parent IN
    /\ p \in DOMAIN directory
    /\ directory[p].inode \in DOMAIN inodes
    /\ IsDir(inodes[directory[p].inode].mode)

(* C35: with no call in flight, every entry but the root's lies under an   *)
(* existing entry whose inode is a directory.                              *)
C35_AsStated ==
  Quiescent => \A d \in DOMAIN directory : directory[d].parent # 0 => UnderDirectory(d)

----------------------------------------------------------------------------
(* Two calls at a time on one handle of the file /a: writes of one byte at *)
(* offsets 0 and 1, and the handle's release.                              *)
OneByte == {<<1>>, <<2>>}
NearPositions == {0, 1}

InitWrites ==
  /\ directory = (1 :> [name |-> "", parent |-> 0, inode |-> 1])
                 @@ (2 :> [name |-> "a", parent |-> 1, inode |-> 2])
  /\ inodes = (1 :> RootInode) @@ (2 :> FileInode)
  /\ nextDir = 2
  /\ nextIno = 2
  /\ openFiles = (FirstFd :> [inode |-> 2, flags |-> 2])
  /\ next = FirstFd + 1
  /\ now = 0
  /\ atimeLevel = 1
  /\ idsByValue \in BOOLEAN
  /\ ops = [s \in Slots |-> Idle]

NextWrites ==
  \E s \in Slots :
       \/ \E b \in OneByte, pos \in NearPositions : Write(s, Owner, FirstFd, b, pos)
       \/ Release(s, Owner, FirstFd)
       \/ Return(s)
       \/ WriteFind(s) \/ WriteCallback(s) \/ WriteUpdate(s)
       \/ IremoveCount(s)

SpecWrites == InitWrites /\ [][NextWrites]_vars

(* the bytes [pos, pos + Len(bytes)) of the payload data are bytes *)
Holds(data, pos, bytes) ==
  /\ Has(data)
  /\ BinRead(Val(data), pos, Len(bytes)) = bytes

(* slot s holds a write that was answered with success *)
Wrote(o) == o.pc = "done" /\ o.op = "write" /\ o.ret >= 0

Disjoint(o, n) == o.pos + Len(o.buf) <= n.pos \/ n.pos + Len(n.buf) <= o.pos

(* C36: when a write is answered with success while the bytes of another   *)
(* successful write to a disjoint range of the same inode are stored, the  *)
(* stored payload then holds the bytes of both and size is its length.     *)
C36_AsStated ==
  [][\A s \in Slots : \A n \in Slots \ {s} :
       ( /\ ops[s].pc = "wr_upd" /\ Wrote(ops'[s])
         /\ Wrote(ops[n]) /\ ops[n].target = ops[s].target
         /\ Disjoint(ops[s], ops[n])
         /\ Holds(inodes[ops[s].target].data, ops[n].pos, ops[n].buf) )
       => LET doc == inodes'[ops[s].target] IN
            /\ Holds(doc.data, ops[n].pos, ops[n].buf)
            /\ Holds(doc.data, ops[s].pos, ops[s].buf)
            /\ doc.size = Some(Val(doc.data).len)]_vars

(* slot s holds a write that has passed its handle check and waits for the *)
(* store                                                                   *)
WritePending(o) == o.op = "write" /\ o.pc \in {"wr_find", "wr_cb", "wr_upd"}

(* C37: every step of a write past its handle check leads to a later step  *)
(* of this write against the inode its handle referenced at the call, or   *)
(* to its answer: what becomes of the handle meanwhile makes no difference.*)
C37_AsStated ==
  [][\A s \in Slots :
       (WritePending(ops[s]) /\ ops'[s] # ops[s])
       => \/ ops'[s].pc = "done"
          \/ WritePending(ops'[s]) /\ ops'[s].target = ops[s].target]_vars

----------------------------------------------------------------------------
(* Every store call completes: a call that waits for the store takes its   *)
(* next step in the end.                                                   *)
StoreAnswers(s) == WriteFind(s) \/ WriteCallback(s) \/ WriteUpdate(s) \/ IremoveCount(s)

SpecWritesLive == SpecWrites /\ \A s \in Slots : WF_vars(StoreAnswers(s))

(* the handler in slot s has been called and has not called back *)
InFlight(s) == ops[s].pc \notin {"idle", "done"}

(* C38: every handler that has been called calls back in the end.          *)
C38_AsStated == \A s \in Slots : InFlight(s) ~> (ops[s].pc = "done")

----------------------------------------------------------------------------
(* The file /a, of two bytes, is open O_RDONLY as its only handle; root,   *)
(* the owner, a group member and a stranger read, write and truncate       *)
(* through the handle, one call at a time.                                 *)
InitReadOnly ==
  /\ directory = (1 :> [name |-> "", parent |-> 0, inode |-> 1])
                 @@ (2 :> [name |-> "a", parent |-> 1, inode |-> 2])
  /\ \E m \in TruncModes :
       inodes = (1 :> RootInode)
                @@ (2 :> [FileInode EXCEPT !.mode = m, !.data = Some(BinOf(<<2, 1>>)),
                                           !.size = Some(2)])
  /\ nextDir = 2
  /\ nextIno = 2
  /\ openFiles = (FirstFd :> [inode |-> 2, flags |-> 0])
  /\ next = FirstFd + 1
  /\ now = 0
  /\ atimeLevel = 1
  /\ idsByValue \in BOOLEAN
  /\ ops = [s \in Slots |-> Idle]

NextReadOnly ==
  \/ Tick
  \/ \E s \in {1} :
       \/ \E u \in TruncCallers, n \in TruncSizes : Ftruncate(s, u, FirstFd, n)
       \/ \E u \in TruncCallers, b \in OneByte : Write(s, u, FirstFd, b, 0)
       \/ \E u \in TruncCallers : Read(s, u, FirstFd, 2, 0)
       \/ Return(s)
       \/ ItruncateFind(s) \/ ItruncateUpdate(s)
       \/ ReadFind(s) \/ ReadAtime(s)

SpecReadOnly == InitReadOnly /\ [][NextReadOnly]_vars

(* C39: while every handle is read-only and every call goes through a      *)
(* handle, no step changes the payload of an inode.                        *)
C39_AsStated ==
  [][\A i \in DOMAIN inodes : i \in DOMAIN inodes' /\ inodes'[i].data = inodes[i].data]_vars

----------------------------------------------------------------------------
(* The file of inode 2 has the two names /a and /b and is open as handles  *)
(* 10 and 11; unlink and release, two calls at a time, no store call fails.*)
InitClose ==
  /\ directory = (1 :> [name |-> "", parent |-> 0, inode |-> 1])
                 @@ (2 :> [name |-> "a", parent |-> 1, inode |-> 2])
                 @@ (3 :> [name |-> "b", parent |-> 1, inode |-> 2])
  /\ inodes = (1 :> RootInode) @@ (2 :> FileInode)
  /\ nextDir = 3
  /\ nextIno = 2
  /\ openFiles = (FirstFd :> [inode |-> 2, flags |-> 2])
                 @@ ((FirstFd + 1) :> [inode |-> 2, flags |-> 0])
  /\ next = FirstFd + 2
  /\ now = 0
  /\ atimeLevel = 0
  /\ idsByValue \in BOOLEAN
  /\ ops = [s \in Slots |-> Idle]

NextClose ==
  \E s \in Slots :
    \/ \E p \in {<<"a">>, <<"b">>} : StartUnlink(s, Owner, p)
    \/ \E fd \in {FirstFd, FirstFd + 1} : Release(s, Owner, fd)
    \/ Return(s)
    \/ Resolve(s)
    \/ UnlinkRemove(s) \/ UnlinkIremove(s)
    \/ IremoveCount(s) \/ IremoveRemove(s)

SpecClose == InitClose /\ [][NextClose]_vars

(* C40: with no call in flight, an inode that is stored has a directory    *)
(* entry or an open handle: the last unlink or release has deleted it.     *)
C40_NoLeak ==
  Quiescent => \A i \in DOMAIN inodes : LinkCount(i) # 0 \/ HandlesOf(openFiles, i) # {}

(* an unlink and a release that overlapped have both answered, and the     *)
(* inode, without entry or handle, is gone                                 *)
C40_Witness ==
  /\ Answered(1, "unlink", 0) /\ Answered(2, "release", 0)
  /\ LinkCount(2) = 0 /\ HandlesOf(openFiles, 2) = {}
  /\ 2 \notin DOMAIN inodes

=============================================================================
